---------------------------- MODULE Spec2Model ----------------------------
(***************************************************************************)
(* A model of auto-editor's argument front end:                            *)
(*   - vanparse.py : ArgumentParser / ParseOptions (the command line walk)  *)
(*                   and the dataclass payload parser parse_dataclass;      *)
(*   - cmdkw.py    : PLexer (the inline lexer), parse_with_palet and        *)
(*                   parse_dataclass (the inline parsers).                  *)
(* Python strings are sequences of one-character strings, so that slicing,  *)
(* replace, split and startswith are computed as the code computes them.    *)
(***************************************************************************)
EXTENDS Naturals, Sequences, FiniteSets, TLC

(***************************************************************************)
(* Bounds of the model.                                                     *)
(***************************************************************************)
\* longest argument vector that is enumerated exhaustively
MaxArgs == 3
\* longest inline payload that is enumerated exhaustively
MaxText == 4

(***************************************************************************)
(* Python str operations.                                                   *)
(***************************************************************************)
\* s[:n]
Take(s, n) == SubSeq(s, 1, IF n < Len(s) THEN n ELSE Len(s))

\* s[n:]
Drop(s, n) == SubSeq(s, n + 1, Len(s))

\* s.replace(a, b) for a one-character a and a one-character b
Replace(s, a, b) == [k \in 1..Len(s) |-> IF s[k] = a THEN b ELSE s[k]]

\* s.replace(a, "") for a one-character a
Remove(s, a) == SelectSeq(s, LAMBDA ch : ch # a)

\* s.startswith(p)
StartsWith_Never(s, p) == FALSE

StartsWith(s, p) == Len(s) >= Len(p) /\ SubSeq(s, 1, Len(p)) = p

\* c in s, for a one-character c
Contains(s, c) == \E k \in 1..Len(s) : s[k] = c

\* position of the first c in s, 0 when there is none
RECURSIVE FindFrom(_, _, _)
FindFrom(s, c, k) ==
    IF k > Len(s) THEN 0
    ELSE IF s[k] = c THEN k
    ELSE FindFrom(s, c, k + 1)

\* s.split(c): every cell, the empty ones included; "".split(c) is [""]
RECURSIVE Split(_, _)
Split(s, c) ==
    LET k == FindFrom(s, c, 1)
    IN  IF k = 0 THEN <<s>>
        ELSE <<SubSeq(s, 1, k - 1)>> \o Split(Drop(s, k), c)

\* s.split(c, 1) of a string that contains c
SplitOnce(s, c) ==
    LET k == FindFrom(s, c, 1)
    IN  <<SubSeq(s, 1, k - 1), Drop(s, k)>>

\* x in seq
InSeq(x, seq) == \E k \in 1..Len(seq) : seq[k] = x

\* all sequences over S of length at most n
RECURSIVE SeqsUpTo(_, _)
SeqsUpTo(S, n) ==
    IF n = 0 THEN {<<>>}
    ELSE LET shorter == SeqsUpTo(S, n - 1)
         IN  shorter \cup {Append(s, x) : s \in {t \in shorter : Len(t) = n - 1}, x \in S}

(***************************************************************************)
(* Python values.  Every value is a record of one shape, so that any two    *)
(* values can be compared: t is the type, s the text of a str or an int,    *)
(* l the elements of a list or the fields of a dataclass instance.          *)
(***************************************************************************)
None == [t |-> "none", s |-> <<>>, l |-> <<>>]

Bool(b) == [t |-> "bool", s |-> IF b THEN <<"T">> ELSE <<"F">>, l |-> <<>>]

Str(s) == [t |-> "str", s |-> s, l |-> <<>>]

Int(s) == [t |-> "int", s |-> s, l |-> <<>>]

List(l) == [t |-> "list", s |-> <<>>, l |-> l]

\* an instance of a dataclass: its field values in declaration order
Obj(l) == [t |-> "obj", s |-> <<>>, l |-> l]

\* the result of a conversion that raised
Raised == [t |-> "raised", s |-> <<>>, l |-> <<>>]

Digits == {"0", "1", "2", "3", "4", "5", "6", "7", "8", "9"}

\* int(s) accepts an optional sign and decimal digits
IsIntLiteral(s) ==
    LET body == IF Len(s) > 0 /\ s[1] \in {"-", "+"} THEN Drop(s, 1) ELSE s
    IN  Len(body) > 0 /\ \A k \in 1..Len(body) : body[k] \in Digits

\* leading zeros dropped
RECURSIVE StripZeros(_)
StripZeros(s) ==
    IF Len(s) > 1 /\ s[1] = "0" THEN StripZeros(Drop(s, 1)) ELSE s

\* the number int(s) denotes, as canonical text
IntText(s) ==
    LET neg  == Len(s) > 0 /\ s[1] = "-"
        body == StripZeros(IF Len(s) > 0 /\ s[1] \in {"-", "+"} THEN Drop(s, 1) ELSE s)
    IN  IF neg /\ body # <<"0">> THEN <<"-">> \o body ELSE body

\* option.type(val) for the types str and int; int raises ValueError
PyType(ty, val) ==
    IF ty = "int"
    THEN IF val.t = "int" THEN val
         ELSE IF val.t = "str" /\ IsIntLiteral(val.s) THEN Int(IntText(val.s))
         ELSE Raised
    ELSE IF val.t = "none" THEN Str(<<"N", "o", "n", "e">>)
    ELSE val


(***************************************************************************)
(* The words the argument vectors and the grammar are built from.           *)
(***************************************************************************)
w_rect == <<"-", "-", "r", "e", "c", "t">>

w_tracks == <<"-", "-", "t", "r", "a", "c", "k", "s">>

w_output == <<"-", "-", "o", "u", "t", "p", "u", "t">>

w_o == <<"-", "o">>

w_help == <<"-", "-", "h", "e", "l", "p">>

w_h == <<"-", "h">>

w_input == <<"i", "n", "p", "u", "t">>

w_file == <<"f", "i", "l", "e">>

w_a == <<"a", ".", "m", "p", "4">>

w_b == <<"b", ".", "m", "p", "4">>

w_1020 == <<"1", "0", ",", "2", "0">>

w_3040fff == <<"3", "0", ",", "4", "0", ",", "#", "f", "f", "f">>

w_1 == <<"1">>

w_2 == <<"2">>

w_3 == <<"3">>

w_x == <<"x">>

w_other == <<"-", "-", "o", "t", "h", "e", "r">>

w_v == <<"-", "v">>

w_V == <<"-", "V">>

w_000 == <<"#", "0", "0", "0">>

w_fff == <<"#", "f", "f", "f">>

w_10 == <<"1", "0">>

w_20 == <<"2", "0">>

w_30 == <<"3", "0">>

w_40 == <<"4", "0">>

w_a_b_c == <<"-", "-", "a", "-", "b", "-", "c">>

w_a_b_c_old == <<"-", "-", "a", "_", "b", "_", "c">>

w_a_b_c_mixed == <<"-", "-", "a", "_", "b", "-", "c">>

w_x_y == <<"-", "-", "x", "_", "y">>

w_x_y_new == <<"-", "-", "x", "-", "y">>

w_count == <<"-", "-", "c", "o", "u", "n", "t">>

w_export == <<"-", "-", "e", "x", "p", "o", "r", "t">>

w_number == <<"n", "u", "m", "b", "e", "r">>

w_optuput == <<"-", "-", "o", "p", "t", "u", "p", "u", "t">>

w_output_comma == <<"-", "-", "o", "u", "t", ",", "p", "u", "t">>

w_zzz == <<"-", "-", "z", "z", "z">>

f_x == <<"x">>

f_y == <<"y">>

f_color == <<"c", "o", "l", "o", "r">>

(***************************************************************************)
(* vanparse.py: the grammar.                                                *)
(***************************************************************************)
\* dataclasses.MISSING: the default of a field declared without one
Missing == [t |-> "missing", s |-> <<>>, l |-> <<>>]

\* a dataclass handed to Options(dataclass=...): its fields in order
NoDataclass == [name |-> <<>>, fields |-> <<>>]

\* class Rect: x, y, color = "#000"
Rect ==
    [name   |-> <<"R", "e", "c", "t">>,
     fields |-> << [n |-> f_x, default |-> Missing],
                   [n |-> f_y, default |-> Missing],
                   [n |-> f_color, default |-> Str(w_000)] >>]

\* Options(names, nargs, type, default, action, choices, dataclass)
Options(names, nargs, type, default, action, dataclass) ==
    [names |-> names, nargs |-> nargs, type |-> type, default |-> default,
     action |-> action, has_choices |-> FALSE, choices |-> <<>>,
     dataclass |-> dataclass, _type |-> "option"]

\* Required(names, nargs, type, choices)
Required(names, nargs, type) ==
    [names |-> names, nargs |-> nargs, type |-> type, default |-> None,
     action |-> "default", has_choices |-> FALSE, choices |-> <<>>,
     dataclass |-> NoDataclass, _type |-> "required"]

\* the specs a client registers, in registration order
OptRect == Options(<<w_rect>>, "*", "str", None, "default", Rect)

OptTracks == Options(<<w_tracks>>, "*", "int", None, "default", NoDataclass)

OptOutput == Options(<<w_output, w_o>>, "1", "str", None, "default", NoDataclass)

OptHelp == Options(<<w_help, w_h>>, "1", "str", None, "store_true", NoDataclass)

\* Options(..., choices=choices) and Required(..., choices=choices)
WithChoices(spec, choices) == [spec EXCEPT !.has_choices = TRUE, !.choices = choices]

\* a scalar option of type int, a scalar option with a choice set, and a
\* scalar positional of type int
OptCount == Options(<<w_count>>, "1", "int", None, "default", NoDataclass)

OptExport ==
    WithChoices(Options(<<w_export>>, "1", "str", None, "default", NoDataclass),
                <<Str(w_a), Str(w_b)>>)

ReqNumber == Required(<<w_number>>, "1", "int")

\* an option declared in the new style, and one declared in the old style
OptDashed == Options(<<w_a_b_c>>, "1", "str", None, "default", NoDataclass)

OptUnderscored == Options(<<w_x_y>>, "1", "str", None, "store_true", NoDataclass)

ReqInput == Required(<<w_input>>, "*", "str")

ReqFile == Required(<<w_file>>, "1", "str")

\* the client programs: each is the sequence of registrations it makes
ClientList == <<ReqInput, OptRect, OptTracks, OptOutput, OptHelp>>

ClientFile == <<ReqFile, OptTracks, OptOutput, OptHelp>>

ClientRect == <<ReqInput, OptRect>>

ClientBare == <<OptOutput>>

ClientNames == <<ReqInput, OptDashed, OptUnderscored>>

ClientTyped == <<ReqNumber, OptCount, OptExport>>

\* two scalar positionals, declared in this order
ClientPair == <<ReqFile, ReqNumber, OptOutput>>

\* --a-b-c and a flag --a_b_c: two options whose names give the same key
OptDashedOld == Options(<<w_a_b_c_old>>, "1", "str", None, "store_true", NoDataclass)

ClientClash == <<ReqInput, OptDashed, OptDashedOld>>

Clients ==
    {ClientList, ClientFile, ClientRect, ClientBare, ClientNames, ClientTyped, ClientPair,
     ClientClash}

\* to_underscore that leaves the name as it was declared
to_underscore_Same(name) == name

\* to_underscore(name)
to_underscore(name) == Take(name, 2) \o Replace(Drop(name, 2), "-", "_")

\* to_key(op)
to_key(op) == Remove(Take(op.names[1], 2), "-") \o Replace(Drop(op.names[1], 2), "-", "_")

\* name in option.names or name in map(to_underscore, option.names)
OptionMatches(name, option) ==
    \E k \in 1..Len(option.names) :
        name = option.names[k] \/ name = to_underscore(option.names[k])

\* get_option(name, options): the index of the first option that matches, 0 for None
RECURSIVE GetOptionFrom(_, _, _)
GetOptionFrom(name, options, k) ==
    IF k > Len(options) THEN 0
    ELSE IF OptionMatches(name, options[k]) THEN k
    ELSE GetOptionFrom(name, options, k + 1)

get_option(name, options) == GetOptionFrom(name, options, 1)

(***************************************************************************)
(* Outcomes of a call: a returned value, or the error that ended it.        *)
(***************************************************************************)
Ok(v) == [ok |-> TRUE, v |-> v, err |-> ""]

Err(e) == [ok |-> FALSE, v |-> None, err |-> e]

(***************************************************************************)
(* vanparse.py: parse_dataclass(unsplit_arguments, dataclass).              *)
(***************************************************************************)
\* keys = [field.name for field in fields(dataclass)]
FieldNames(dc) == [k \in 1..Len(dc.fields) |-> dc.fields[k].n]

\* kwargs[key], for a kwargs kept as the sequence of its (key, val) assignments
RECURSIVE KwLast(_, _, _)
KwLast(kw, key, k) ==
    IF k = 0 THEN Missing
    ELSE IF kw[k][1] = key THEN Str(kw[k][2])
    ELSE KwLast(kw, key, k - 1)

\* Construct with the declared defaults never filled in
Construct_NoDefaults(dc, args, kw) ==
    LET val(k) ==
            IF k <= Len(args) THEN Str(args[k])
            ELSE KwLast(kw, dc.fields[k].n, Len(kw))
        twice == \E k \in 1..Len(dc.fields) :
                    k <= Len(args) /\ KwLast(kw, dc.fields[k].n, Len(kw)) # Missing
        absent == \E k \in 1..Len(dc.fields) : val(k) = Missing
    IN  IF Len(args) > Len(dc.fields) \/ twice \/ absent
        THEN Err("TypeError")
        ELSE Ok(Obj([k \in 1..Len(dc.fields) |-> val(k)]))

\* dataclass(*args, **kwargs): TypeError on a field supplied twice or not at all
Construct(dc, args, kw) ==
    LET val(k) ==
            IF k <= Len(args) THEN Str(args[k])
            ELSE IF KwLast(kw, dc.fields[k].n, Len(kw)) # Missing
                 THEN KwLast(kw, dc.fields[k].n, Len(kw))
            ELSE dc.fields[k].default
        twice == \E k \in 1..Len(dc.fields) :
                    k <= Len(args) /\ KwLast(kw, dc.fields[k].n, Len(kw)) # Missing
        absent == \E k \in 1..Len(dc.fields) : val(k) = Missing
    IN  IF Len(args) > Len(dc.fields) \/ twice \/ absent
        THEN Err("TypeError")
        ELSE Ok(Obj([k \in 1..Len(dc.fields) |-> val(k)]))

\* the loop over enumerate(unsplit_arguments.split(",")), from cell i on
RECURSIVE VanCells(_, _, _, _, _, _)
VanCells(dc, cells, i, args, kw, allow_positional_args) ==
    IF i > Len(cells)
    THEN LET made == Construct(dc, args, kw)
         IN  IF made.ok THEN made ELSE Err("dataclass TypeError")
    ELSE LET arg == cells[i]
         IN  IF i > Len(dc.fields) THEN Err("has too many arguments")
             ELSE IF Contains(arg, "=")
             THEN LET parameters == Split(arg, "=")
                  IN  IF Len(parameters) > 2 THEN Err("invalid syntax")
                      ELSE IF ~InSeq(parameters[1], FieldNames(dc))
                      THEN Err("got an unexpected keyword")
                      ELSE VanCells(dc, cells, i + 1, args,
                                    Append(kw, <<parameters[1], parameters[2]>>), FALSE)
             ELSE IF allow_positional_args
             THEN VanCells(dc, cells, i + 1, Append(args, arg), kw, TRUE)
             ELSE Err("positional argument follows keyword argument")

\* parse_dataclass(unsplit_arguments, dataclass); dataclass() of the empty
\* payload is outside the try, so its TypeError is not reported through Log
van_parse_dataclass(unsplit_arguments, dc) ==
    IF unsplit_arguments = <<>>
    THEN LET made == Construct(dc, <<>>, <<>>)
         IN  IF made.ok THEN made ELSE Err("uncaught TypeError")
    ELSE VanCells(dc, Split(unsplit_arguments, ","), 1, <<>>, <<>>, TRUE)

(***************************************************************************)
(* State.                                                                   *)
(***************************************************************************)
VARIABLES
    \* ArgumentParser: self.options, self.requireds, self.args, self.description
    options, requireds, args, description,
    \* the registrations the client program makes, and how many it has made
    client, nreg,
    \* the process's argument vector, handed to every parse_args call
    sys_args,
    \* "idle": no parse is running; "walk": ParseOptions.__init__ is in its loop
    pc,
    \* the locals of the running ParseOptions.__init__
    po,
    \* the attributes of the ParseOptions object under construction
    self,
    \* how the last parse_args call ended, and how the first one did
    outcome, first,
    \* parse_args calls completed
    nparse

cli_vars == <<options, requireds, args, description, client, nreg, sys_args, pc, po, self,
              outcome, first, nparse>>

VARIABLES
    \* what runs on the payload: "lexer" (a PLexer asked for token after token),
    \* "palet" (cmdkw.parse_with_palet), "cmdkw" (cmdkw.parse_dataclass) or
    \* "van" (vanparse.parse_dataclass)
    variant,
    \* its arguments: the payload and the attributes it is parsed against
    text, build,
    \* the PLexer of parse_with_palet
    lx,
    \* the parser's locals: kwargs, allow_positional_args, i and, for
    \* parse_dataclass, the cells of text.split(",")
    ip,
    \* the lexeme the loop body is looking at
    arg,
    \* every lexeme the loop has been handed so far, in order
    lexemes,
    \* "off", "start", "tokens", "lex", "body", "cell", "check", "done"
    ipc,
    \* how the call ended
    iout

inline_vars == <<variant, text, build, lx, ip, arg, lexemes, ipc, iout>>

VARIABLES
    \* the argument of make_sources: the paths, in the order given
    paths,
    \* its locals: used_paths, sources, inputs, i, and the number of paths the
    \* for loop has dealt with
    ms,
    \* "off", "start", "loop", "done"
    mpc

source_vars == <<paths, ms, mpc>>

\* parse_args calls made on one parser
MaxParses == 2

(***************************************************************************)
(* How a call ends.                                                         *)
(***************************************************************************)
NoAttrs == [k \in {} |-> None]

NoOutcome == [kind |-> "none", msg |-> "", about |-> <<>>, attrs |-> NoAttrs]

\* the ParseOptions object is returned
Returned(attrs) == [kind |-> "result", msg |-> "", about |-> <<>>, attrs |-> attrs]

\* Log().error(message): the message is reported and the process exits with failure
LogError(msg, about) == [kind |-> "error", msg |-> msg, about |-> about, attrs |-> NoAttrs]

\* an exception nothing catches
Uncaught(exc) == [kind |-> "raised", msg |-> exc, about |-> <<>>, attrs |-> NoAttrs]

\* sys.exit() after printing
Exit(what, about) == [kind |-> "exit", msg |-> what, about |-> about, attrs |-> NoAttrs]

\* setattr(obj, key, value)
setattr(obj, key, value) ==
    [k \in DOMAIN obj \cup {key} |-> IF k = key THEN value ELSE obj[k]]

\* a truth test that never holds
Truthy_Never(v) == FALSE

\* Python truth of a value
Truthy(v) ==
    CASE v.t = "bool" -> v.s = <<"T">>
      [] v.t = "none" -> FALSE
      [] v.t = "list" -> v.l # <<>>
      [] v.t = "str"  -> v.s # <<>>
      [] v.t = "int"  -> v.s # <<"0">>
      [] OTHER        -> TRUE

w_helpkey == <<"h", "e", "l", "p">>

(***************************************************************************)
(* vanparse.py: ParseOptions.parse_value and ParseOptions.set_arg_list.     *)
(***************************************************************************)
\* a call that returned v, or that ended the parse with the outcome out
Good(v) == [ok |-> TRUE, v |-> v, out |-> NoOutcome]

Fail(out) == [ok |-> FALSE, v |-> None, out |-> out]

\* parse_value without the test for a missing value
parse_value_Unguarded(option, val) == Good(PyType(option.type, val))

\* parse_value(option, val); only TypeError is caught, int raises ValueError
parse_value(option, val) ==
    IF val = None /\ option.nargs = "1"
    THEN Fail(LogError("needs argument", option.names[1]))
    ELSE LET value == PyType(option.type, val)
         IN  IF value = Raised THEN Fail(Uncaught("ValueError"))
             ELSE IF option.has_choices /\ ~InSeq(value, option.choices)
             THEN Fail(LogError("is not a choice", option.names[1]))
             ELSE Good(value)

\* MapType with the elements left as they were collected
MapType_Unconverted(list_type, my_list) == List(my_list)

\* list(map(list_type, my_list)), Raised when one conversion raises
MapType(list_type, my_list) ==
    IF \E k \in 1..Len(my_list) : PyType(list_type, my_list[k]) = Raised
    THEN Raised
    ELSE List([k \in 1..Len(my_list) |-> PyType(list_type, my_list[k])])

\* set_arg_list(option_list_name, my_list, list_type) on the attributes obj
set_arg_list(obj, option_list_name, my_list, list_type) ==
    IF option_list_name = None THEN Fail(Uncaught("AssertionError"))
    ELSE IF list_type # "None"
    THEN IF MapType(list_type, my_list) = Raised
         THEN Fail(Uncaught("ValueError"))
         ELSE Good(setattr(obj, option_list_name.s, MapType(list_type, my_list)))
    ELSE Good(setattr(obj, option_list_name.s, List(my_list)))

(***************************************************************************)
(* vanparse.py: ArgumentParser.                                             *)
(***************************************************************************)
\* a parse_args call ends with the outcome out
EndParse(out) ==
    /\ pc' = "idle"
    /\ outcome' = out
    /\ first' = IF nparse = 0 THEN out ELSE first
    /\ nparse' = nparse + 1

NoFrame == [i |-> 0]

\* add_argument(*args, **kwargs): the client's next registration is an option
add_argument ==
    /\ UNCHANGED <<inline_vars, source_vars>>
    /\ pc = "idle" /\ nparse = 0
    /\ nreg < Len(client) /\ client[nreg + 1]._type = "option"
    /\ options' = Append(options, client[nreg + 1])
    /\ args' = Append(args, client[nreg + 1])
    /\ nreg' = nreg + 1
    /\ UNCHANGED <<requireds, description, client, sys_args, pc, po, self, outcome,
                   first, nparse>>

\* add_required(*args, **kwargs)
add_required ==
    /\ UNCHANGED <<inline_vars, source_vars>>
    /\ pc = "idle" /\ nparse = 0
    /\ nreg < Len(client) /\ client[nreg + 1]._type = "required"
    /\ requireds' = Append(requireds, client[nreg + 1])
    /\ args' = Append(args, client[nreg + 1])
    /\ nreg' = nreg + 1
    /\ UNCHANGED <<options, description, client, sys_args, pc, po, self, outcome,
                   first, nparse>>

\* the "Set default attributes" loop of ParseOptions.__init__, from option k on
RECURSIVE SeedDefaults(_, _, _)
SeedDefaults(ops, k, st) ==
    IF k > Len(ops) \/ ~st.ok THEN st
    ELSE LET op == ops[k]
             value == IF op.action = "store_true" THEN Bool(FALSE)
                      ELSE IF op.nargs # "1" THEN List(<<>>)
                      ELSE IF op.default = None THEN None
                      ELSE PyType(op.type, op.default)
         IN  IF value = Raised
             THEN [st EXCEPT !.ok = FALSE]
             ELSE SeedDefaults(ops, k + 1,
                     [ok |-> TRUE,
                      option_names |-> st.option_names \o op.names,
                      value |-> value,
                      attrs |-> setattr(st.attrs, to_key(op), value)])

\* a local that no statement has assigned yet
Unbound == [t |-> "unbound", s |-> <<>>, l |-> <<>>]

\* IsVersionMarker that knows the lower case marker only
IsVersionMarker_Lower(argv) == argv = <<w_v>>

\* sys_args == ["-v"] or sys_args == ["-V"]
IsVersionMarker(argv) == argv = <<w_v>> \/ argv = <<w_V>>

\* parse_args(sys_args), up to the first test of the while loop; the client
\* calls it once its registrations are made
parse_args ==
    /\ UNCHANGED <<inline_vars, source_vars>>
    /\ pc = "idle" /\ nparse < MaxParses /\ nreg = Len(client)
    /\ IF sys_args = <<>> /\ description
       THEN /\ EndParse(Exit("description", <<>>))
            /\ UNCHANGED <<po, self>>
       ELSE IF IsVersionMarker(sys_args)
       THEN /\ EndParse(Exit("version", <<>>))
            /\ UNCHANGED <<po, self>>
       ELSE LET seeded == SeedDefaults(options, 1,
                             [ok |-> TRUE, option_names |-> <<>>, value |-> Unbound,
                              attrs |-> setattr(NoAttrs, w_helpkey, Bool(FALSE))])
            IN  IF ~seeded.ok
                THEN /\ EndParse(Uncaught("ValueError"))
                     /\ UNCHANGED <<po, self>>
                ELSE IF requireds = <<>>
                THEN /\ EndParse(Uncaught("IndexError"))
                     /\ UNCHANGED <<po, self>>
                ELSE /\ pc' = "walk"
                     /\ self' = seeded.attrs
                     /\ po' = [option_names |-> seeded.option_names,
                               value |-> seeded.value,
                               used_options |-> <<>>,
                               req_list |-> <<>>,
                               req_list_name |-> requireds[1].names[1],
                               req_list_type |-> requireds[1].type,
                               setting_req_list |-> requireds[1].nargs # "1",
                               option_list |-> <<>>,
                               op_list_name |-> None,
                               op_list_type |-> "str",
                               setting_op_list |-> FALSE,
                               i |-> 0]
                     /\ UNCHANGED <<outcome, first, nparse>>
    /\ UNCHANGED <<options, requireds, args, description, client, nreg, sys_args>>

(***************************************************************************)
(* vanparse.py: the while loop of ParseOptions.__init__, one iteration per  *)
(* step.  po.i counts from 0 as in the code; sys_args[po.i + 1] is its      *)
(* sys_args[i].                                                             *)
(***************************************************************************)
InLoop == pc = "walk" /\ po.i < Len(sys_args)

CurArg == sys_args[po.i + 1]

\* option = get_option(arg, options), 0 for None
CurOption == get_option(CurArg, options)

grammar_vars == <<options, args, description, client, nreg, sys_args>>

\* option is None and setting_op_list: the token joins the list being collected
WalkListItem ==
    /\ UNCHANGED <<inline_vars, source_vars>>
    /\ InLoop /\ CurOption = 0 /\ po.setting_op_list
    /\ LET last == po.used_options[Len(po.used_options)]
           structured == po.used_options # <<>> /\ last.dataclass # NoDataclass
           parsed == IF structured THEN van_parse_dataclass(CurArg, last.dataclass)
                     ELSE Ok(Str(CurArg))
       IN  IF parsed.ok
           THEN /\ po' = [po EXCEPT !.op_list_type = IF structured THEN "None" ELSE @,
                                    !.option_list = Append(@, parsed.v),
                                    !.i = @ + 1]
                /\ UNCHANGED <<pc, outcome, first, nparse>>
           ELSE /\ EndParse(IF parsed.err = "uncaught TypeError"
                            THEN Uncaught("TypeError")
                            ELSE LogError(parsed.err, last.dataclass.name))
                /\ UNCHANGED po
    /\ UNCHANGED <<self, requireds>>
    /\ UNCHANGED grammar_vars

\* option is None, no list is being collected, requireds and not arg.startswith("--")
WalkPositional ==
    /\ UNCHANGED <<inline_vars, source_vars>>
    /\ InLoop /\ CurOption = 0 /\ ~po.setting_op_list
    /\ requireds # <<>> /\ ~StartsWith(CurArg, <<"-", "-">>)
    /\ IF requireds[1].nargs = "1"
       THEN LET got == parse_value(requireds[1], Str(CurArg))
            IN  IF got.ok
                THEN /\ self' = setattr(self, po.req_list_name, got.v)
                     \* requireds.pop() removes the last element of the parser's list
                     /\ requireds' = SubSeq(requireds, 1, Len(requireds) - 1)
                     /\ po' = [po EXCEPT !.i = @ + 1]
                     /\ UNCHANGED <<pc, outcome, first, nparse>>
                ELSE /\ EndParse(got.out)
                     /\ UNCHANGED <<po, self, requireds>>
       ELSE /\ po' = [po EXCEPT !.req_list = Append(@, Str(CurArg)), !.i = @ + 1]
            /\ UNCHANGED <<self, requireds, pc, outcome, first, nparse>>
    /\ UNCHANGED grammar_vars

(***************************************************************************)
(* difflib.get_close_matches(word, possibilities) with its defaults n = 3   *)
(* and cutoff = 0.6, as the loop calls it.  Positions count from 1.         *)
(***************************************************************************)
\* the length of the run on which a from i and b from j agree, within the
\* ranges that end at ahi and bhi
RECURSIVE CommonRun(_, _, _, _, _, _)
CommonRun(a, i, ahi, b, j, bhi) ==
    IF i > ahi \/ j > bhi THEN 0
    ELSE IF a[i] # b[j] THEN 0
    ELSE 1 + CommonRun(a, i + 1, ahi, b, j + 1, bhi)

\* SequenceMatcher.find_longest_match(alo, ahi, blo, bhi): the longest common
\* block, the earliest in a and then the earliest in b among the longest
find_longest_match(a, alo, ahi, b, blo, bhi) ==
    LET size(i, j) == CommonRun(a, i, ahi, b, j, bhi)
        k == CHOOSE n \in 0..(ahi - alo + 1) :
                /\ \A i \in alo..ahi, j \in blo..bhi : size(i, j) <= n
                /\ n = 0 \/ \E i \in alo..ahi, j \in blo..bhi : size(i, j) = n
        besti == CHOOSE i \in alo..ahi :
                    /\ \E j \in blo..bhi : size(i, j) = k
                    /\ \A h \in alo..(i - 1) : \A j \in blo..bhi : size(h, j) < k
        bestj == CHOOSE j \in blo..bhi :
                    /\ size(besti, j) = k
                    /\ \A h \in blo..(j - 1) : size(besti, h) < k
    IN  IF k = 0 THEN [i |-> alo, j |-> blo, k |-> 0]
        ELSE [i |-> besti, j |-> bestj, k |-> k]

\* the sum of the sizes of SequenceMatcher.get_matching_blocks()
RECURSIVE MatchingSize(_, _, _, _, _, _)
MatchingSize(a, alo, ahi, b, blo, bhi) ==
    IF alo > ahi \/ blo > bhi THEN 0
    ELSE LET x == find_longest_match(a, alo, ahi, b, blo, bhi)
         IN  IF x.k = 0 THEN 0
             ELSE x.k + MatchingSize(a, alo, x.i - 1, b, blo, x.j - 1)
                      + MatchingSize(a, x.i + x.k, ahi, b, x.j + x.k, bhi)

\* SequenceMatcher.ratio() as the fraction 2 * matches / (len(a) + len(b))
ratio(a, b) ==
    IF Len(a) + Len(b) = 0 THEN [num |-> 1, den |-> 1]
    ELSE [num |-> 2 * MatchingSize(a, 1, Len(a), b, 1, Len(b)), den |-> Len(a) + Len(b)]

\* the characters of the words in the order of their code points
CodeOrder ==
    <<"\"", "#", ",", "-", ".", "0", "1", "2", "3", "4", "5", "6", "7", "8", "9", "=",
      "V", "\\", "_", "a", "b", "c", "d", "e", "f", "g", "h", "i", "j", "k",
      "l", "m", "n", "o", "p", "q", "r", "s", "t", "u", "v", "w", "x", "y", "z">>

ord(c) == CHOOSE k \in 1..Len(CodeOrder) : CodeOrder[k] = c

\* a < b for two strings
RECURSIVE StrLess(_, _)
StrLess(a, b) ==
    IF b = <<>> THEN FALSE
    ELSE IF a = <<>> THEN TRUE
    ELSE IF a[1] # b[1] THEN ord(a[1]) < ord(b[1])
    ELSE StrLess(Drop(a, 1), Drop(b, 1))

\* the names at the positions in cands, best first: by score, then by name,
\* both descending, at most n of them (heapq.nlargest)
RECURSIVE nlargest(_, _, _, _)
nlargest(n, cands, word, names) ==
    IF n = 0 \/ cands = {} THEN <<>>
    ELSE LET score(k) == ratio(names[k], word)
             above(k, j) ==
                 \/ score(k).num * score(j).den > score(j).num * score(k).den
                 \/ /\ score(k).num * score(j).den = score(j).num * score(k).den
                    /\ \/ StrLess(names[j], names[k])
                       \/ names[j] = names[k] /\ k < j
             top == CHOOSE k \in cands : \A j \in cands \ {k} : above(k, j)
         IN  <<names[top]>> \o nlargest(n - 1, cands \ {top}, word, names)

\* get_close_matches that proposes nothing
get_close_matches_None(word, possibilities) == <<>>

\* get_close_matches(word, possibilities)
get_close_matches(word, possibilities) ==
    LET close == {k \in 1..Len(possibilities) :
                     LET r == ratio(possibilities[k], word)
                     IN  10 * r.num >= 6 * r.den}
    IN  nlargest(3, close, word, possibilities)

\* ", ".join(words)
RECURSIVE Join(_)
Join(words) ==
    IF words = <<>> THEN <<>>
    ELSE IF Len(words) = 1 THEN words[1]
    ELSE words[1] \o <<",", " ">> \o Join(Drop(words, 1))

\* the message of an unknown token: the token, and after "Did you mean:" the
\* close matches when there are any
Unknown(word, close_matches) ==
    LET label == IF StartsWith(word, <<"-", "-">>) THEN "Unknown option" ELSE "Unknown short"
    IN  IF close_matches # <<>>
        THEN LogError(label, word \o <<"\n">> \o Join(close_matches))
        ELSE LogError(label, word)

\* option is None and nothing takes the token
WalkUnknown ==
    /\ UNCHANGED <<inline_vars, source_vars>>
    /\ InLoop /\ CurOption = 0 /\ ~po.setting_op_list
    /\ ~(requireds # <<>> /\ ~StartsWith(CurArg, <<"-", "-">>))
    /\ EndParse(IF InSeq(Remove(CurArg, ","), po.option_names)
                THEN LogError("has an unnecessary comma", CurArg)
                ELSE Unknown(CurArg, get_close_matches(CurArg, po.option_names)))
    /\ UNCHANGED <<po, self, requireds>>
    /\ UNCHANGED grammar_vars

\* IsHelpMarker that knows the short marker only
IsHelpMarker_ShortOnly(next_arg) == next_arg = Str(w_h)

\* next_arg == "-h" or next_arg == "--help"
IsHelpMarker(next_arg) == next_arg = Str(w_h) \/ next_arg = Str(w_help)

\* option is not None
WalkOption ==
    /\ UNCHANGED <<inline_vars, source_vars>>
    /\ InLoop /\ CurOption # 0
    /\ LET option == options[CurOption]
           flushed == IF po.op_list_name # None
                      THEN set_arg_list(self, po.op_list_name, po.option_list, po.op_list_type)
                      ELSE Good(self)
           key == to_key(option)
           next_arg == IF po.i = Len(sys_args) - 1 THEN None ELSE Str(sys_args[po.i + 2])
           used == Append(po.used_options, option)
           base == [po EXCEPT !.used_options = used, !.setting_op_list = FALSE,
                              !.option_list = <<>>, !.op_list_name = None]
       IN  IF ~flushed.ok
           THEN EndParse(flushed.out) /\ UNCHANGED <<po, self>>
           ELSE IF InSeq(option, po.used_options)
           THEN EndParse(LogError("Cannot repeat option", option.names[1]))
                /\ UNCHANGED <<po, self>>
           ELSE IF IsHelpMarker(next_arg)
           THEN EndParse(Exit("option help", option.names[1])) /\ UNCHANGED <<po, self>>
           ELSE IF option.nargs # "1"
           THEN \* setattr(self, key, value) stores whatever value last held
                IF po.value = Unbound
                THEN EndParse(Uncaught("UnboundLocalError")) /\ UNCHANGED <<po, self>>
                ELSE /\ po' = [base EXCEPT !.setting_op_list = TRUE,
                                           !.op_list_name = Str(key),
                                           !.op_list_type = option.type,
                                           !.i = @ + 1]
                     /\ self' = setattr(flushed.v, key, po.value)
                     /\ UNCHANGED <<pc, outcome, first, nparse>>
           ELSE IF option.action = "store_true"
           THEN /\ po' = [base EXCEPT !.value = Bool(TRUE), !.i = @ + 1]
                /\ self' = setattr(flushed.v, key, Bool(TRUE))
                /\ UNCHANGED <<pc, outcome, first, nparse>>
           ELSE LET got == parse_value(option, next_arg)
                IN  IF got.ok
                    THEN /\ po' = [base EXCEPT !.value = got.v, !.i = @ + 2]
                         /\ self' = setattr(flushed.v, key, got.v)
                         /\ UNCHANGED <<pc, outcome, first, nparse>>
                    ELSE EndParse(got.out) /\ UNCHANGED <<po, self>>
    /\ UNCHANGED requireds
    /\ UNCHANGED grammar_vars

\* the statements after the loop
Finish ==
    /\ UNCHANGED <<inline_vars, source_vars>>
    /\ pc = "walk" /\ po.i >= Len(sys_args)
    /\ LET one == IF po.setting_op_list
                  THEN set_arg_list(self, po.op_list_name, po.option_list, po.op_list_type)
                  ELSE Good(self)
           two == IF ~one.ok THEN one
                  ELSE IF po.setting_req_list
                  THEN set_arg_list(one.v, Str(po.req_list_name), po.req_list, po.req_list_type)
                  ELSE one
       IN  /\ EndParse(IF ~two.ok THEN two.out
                       ELSE IF Truthy(two.v[w_helpkey]) THEN Exit("program help", <<>>)
                       ELSE Returned(two.v))
           /\ self' = IF two.ok THEN two.v ELSE IF one.ok THEN one.v ELSE self
    /\ UNCHANGED <<po, requireds>>
    /\ UNCHANGED grammar_vars

(***************************************************************************)
(* cmdkw.py: PLexer.  pos counts from 0 as in the code; NoChar is the None  *)
(* that self.char holds past the end of the text.                           *)
(***************************************************************************)
NoChar == "None"

QUOTE == "\""

BACKSLASH == "\\"

\* PLexer.__init__(text)
PLexer(txt) == [pos |-> 0, char |-> IF txt # <<>> THEN txt[1] ELSE NoChar]

\* PLexer.advance()
advance(txt, lexer) ==
    [pos |-> lexer.pos + 1,
     char |-> IF lexer.pos + 1 > Len(txt) - 1 THEN NoChar ELSE txt[lexer.pos + 2]]

\* the while loop of PLexer.string() and its return
RECURSIVE StringLoop(_, _, _)
StringLoop(txt, lexer, result) ==
    IF lexer.char # NoChar /\ lexer.char # QUOTE
    THEN IF lexer.char = BACKSLASH
         THEN LET escaped == advance(txt, lexer)
              IN  IF escaped.char = NoChar
                  THEN [lx |-> escaped, tok |-> None,
                        err |-> "Expected character for escape sequence, got end of file."]
                  ELSE StringLoop(txt, advance(txt, advance(txt, escaped)),
                                  result \o <<BACKSLASH, escaped.char>>)
         ELSE StringLoop(txt, advance(txt, lexer), Append(result, lexer.char))
    ELSE [lx |-> advance(txt, lexer), tok |-> Str(<<QUOTE>> \o result \o <<QUOTE>>), err |-> ""]

\* PLexer.string()
string(txt, lexer) == StringLoop(txt, lexer, <<>>)

\* the inner while loop of get_next_token: characters up to a comma
RECURSIVE CellLoop(_, _, _)
CellLoop(txt, lexer, result) ==
    IF lexer.char # NoChar /\ lexer.char # ","
    THEN CellLoop(txt, advance(txt, lexer), Append(result, lexer.char))
    ELSE [lx |-> advance(txt, lexer), tok |-> Str(result), err |-> ""]

\* get_next_token that hands out the current character without consuming it
get_next_token_Peek(txt, lexer) ==
    [lx |-> lexer,
     tok |-> IF lexer.char = NoChar THEN None ELSE Str(<<lexer.char>>),
     err |-> ""]

\* PLexer.get_next_token(): the lexer after the call, the token (None at the end)
get_next_token(txt, lexer) ==
    IF lexer.char = NoChar THEN [lx |-> lexer, tok |-> None, err |-> ""]
    ELSE IF lexer.char = QUOTE THEN string(txt, advance(txt, lexer))
    ELSE CellLoop(txt, lexer, <<>>)

(***************************************************************************)
(* cmdkw.py: the structures a payload is parsed against.  A contract and    *)
(* the expression evaluator are collaborators outside these files; they are *)
(* modelled by the interface the parsers use.                               *)
(***************************************************************************)
\* class Required: the default of an attribute that must be given
RequiredSentinel == [t |-> "Required", s |-> <<>>, l |-> <<>>]

\* a contract itself, held as a value
ContractObj(c) == [t |-> "contract", s |-> <<c>>, l |-> <<>>]

\* the evaluator on a value text: integer literals and quoted strings evaluate,
\* the empty text gives no result, anything else is a MyError
Evaluate(txt) ==
    IF txt = <<>> THEN Err("Results must be of length > 0")
    ELSE IF IsIntLiteral(txt) THEN Ok(Int(IntText(txt)))
    ELSE IF Len(txt) >= 2 /\ txt[1] = QUOTE /\ txt[Len(txt)] = QUOTE
    THEN Ok(Str(SubSeq(txt, 2, Len(txt) - 1)))
    ELSE Err("MyError")

\* c(v) is True, for the predicate form of a contract
Accepts(c, v) == c = "any" \/ (c = "nat" /\ v.t = "int" /\ ~StartsWith(v.s, <<"-">>))

\* c(v), for the converter form of a contract: the value, or Raised on CoerceError
Coerce(c, v) ==
    IF c = "any" THEN v
    ELSE IF v.t = "int" /\ ~StartsWith(v.s, <<"-">>) THEN v
    ELSE IF v.t = "str" /\ IsIntLiteral(v.s) /\ ~StartsWith(v.s, <<"-">>) THEN Int(IntText(v.s))
    ELSE Raised

\* pAttr(n, default, contract) and the (n, contract, default) tuples of cAttrs
Attr(n, default, contract) == [n |-> n, default |-> default, contract |-> contract]

\* attributes a, b, c, all with defaults and contracts that accept anything
BuildABC ==
    [name |-> <<"a", "b", "c">>,
     attrs |-> << Attr(<<"a">>, Str(<<"p">>), "any"),
                  Attr(<<"b">>, Str(<<"q">>), "any"),
                  Attr(<<"c">>, Int(<<"7">>), "any") >>]

\* attribute a must be given and be a natural number, b has a default
BuildReq ==
    [name |-> <<"r", "e", "q">>,
     attrs |-> << Attr(<<"a">>, RequiredSentinel, "nat"),
                  Attr(<<"b">>, Int(<<"0">>), "nat") >>]

\* attribute a has a default that its own contract rejects
BuildBadDefault ==
    [name |-> <<"b", "a", "d">>,
     attrs |-> << Attr(<<"a">>, Str(<<"x">>), "nat") >>]

Builds == {BuildABC, BuildReq, BuildBadDefault}

\* the dataclass with the fields of a build, for vanparse.parse_dataclass
DataclassOf(b) ==
    [name   |-> b.name,
     fields |-> [k \in 1..Len(b.attrs) |->
                    [n |-> b.attrs[k].n,
                     default |-> IF b.attrs[k].default = RequiredSentinel
                                 THEN Missing ELSE b.attrs[k].default]]]

\* _norm_name(s)
_norm_name(n) == Replace(n, "-", "_")

\* a ParserError raised by a parser
ParserError(msg) == Err(msg)

\* go(text, c) of parse_with_palet
go(txt, c) ==
    LET results == Evaluate(txt)
    IN  IF ~results.ok THEN ParserError(results.err)
        ELSE IF ~Accepts(c, results.v) THEN ParserError("Expected contract")
        ELSE Ok(results.v)

\* var_f(n, c, v) of cmdkw.parse_dataclass
var_f(n, c, v) == Coerce(c, v)

\* AttrNamed with the comparison of the names dropped
AttrNamed_Any(attrs, key, k) == IF k > Len(attrs) THEN 0 ELSE k

\* index of the first attribute named key, 0 when there is none
RECURSIVE AttrNamed(_, _, _)
AttrNamed(attrs, key, k) ==
    IF k > Len(attrs) THEN 0
    ELSE IF attrs[k].n = key THEN k
    ELSE AttrNamed(attrs, key, k + 1)

(***************************************************************************)
(* cmdkw.py: parse_with_palet and parse_dataclass, one loop iteration per   *)
(* step.                                                                    *)
(***************************************************************************)
InlineRunning == [kind |-> "none", msg |-> "", about |-> <<>>, kwargs |-> NoAttrs]

\* return kwargs
InlineReturned(kwargs) == [kind |-> "result", msg |-> "", about |-> <<>>, kwargs |-> kwargs]

\* raise ParserError(msg), or Log().error(msg) in vanparse
InlineFailed(msg, about) == [kind |-> "error", msg |-> msg, about |-> about, kwargs |-> NoAttrs]

\* an exception that is not a ParserError leaves the parser
InlineRaised(exc) == [kind |-> "raised", msg |-> exc, about |-> <<>>, kwargs |-> NoAttrs]

\* for attr in build.attrs: kwargs[_norm_name(attr.n)] = attr.default
RECURSIVE SeedPalet(_, _, _)
SeedPalet(attrs, k, kwargs) ==
    IF k > Len(attrs) THEN kwargs
    ELSE SeedPalet(attrs, k + 1, setattr(kwargs, _norm_name(attrs[k].n), attrs[k].default))

\* what parse_dataclass seeds for one attribute:
\* var_f(*attr) if attr[2] is not Required else attr[1]
SeedValue(attr) ==
    IF attr.default # RequiredSentinel
    THEN var_f(attr.n, attr.contract, attr.default)
    ELSE ContractObj(attr.contract)

\* for attr in build.attrs: kwargs[attr[0]] = ...
RECURSIVE SeedCmdkw(_, _, _)
SeedCmdkw(attrs, k, kwargs) ==
    IF k > Len(attrs) THEN kwargs
    ELSE SeedCmdkw(attrs, k + 1, setattr(kwargs, attrs[k].n, SeedValue(attrs[k])))

\* EnterKeywordMode with the assignment forgotten
EnterKeywordMode_Forgotten(frame) == frame

\* allow_positional_args = False
EnterKeywordMode(frame) == [frame EXCEPT !.allow_positional_args = FALSE]

\* TooMany that already refuses the last attribute
TooMany_Strict(i, attrs) == i + 1 >= Len(attrs)

\* i + 1 > len(build.attrs)
TooMany(i, attrs) == i + 1 > Len(attrs)

\* a caller that only lexes: PLexer(text), then get_next_token() until None
LexerStart ==
    /\ UNCHANGED <<cli_vars, source_vars>>
    /\ ipc = "start" /\ variant = "lexer"
    /\ lx' = PLexer(text)
    /\ ipc' = "tokens"
    /\ UNCHANGED <<variant, text, build, ip, arg, lexemes, iout>>

LexerNext ==
    /\ UNCHANGED <<cli_vars, source_vars>>
    /\ ipc = "tokens"
    /\ LET got == get_next_token(text, lx)
       IN  /\ lx' = got.lx
           /\ IF got.err # ""
              THEN ipc' = "done" /\ iout' = InlineFailed(got.err, <<>>)
                   /\ UNCHANGED <<arg, lexemes>>
              ELSE IF got.tok = None
              THEN ipc' = "done" /\ iout' = InlineReturned(NoAttrs)
                   /\ UNCHANGED <<arg, lexemes>>
              ELSE ipc' = "tokens" /\ arg' = got.tok.s
                   /\ lexemes' = Append(lexemes, got.tok.s)
                   /\ UNCHANGED iout
    /\ UNCHANGED <<variant, text, build, ip>>

\* parse_with_palet starts: the seeding loop and PLexer(text)
PaletStart ==
    /\ UNCHANGED <<cli_vars, source_vars>>
    /\ ipc = "start" /\ variant = "palet"
    /\ ip' = [kwargs |-> SeedPalet(build.attrs, 1, NoAttrs),
              allow_positional_args |-> TRUE, i |-> 0, cells |-> <<>>]
    /\ lx' = PLexer(text)
    /\ ipc' = "lex"
    /\ UNCHANGED <<variant, text, build, arg, lexemes, iout>>

\* arg := lexer.get_next_token(), and the test of the while loop
GetNextToken ==
    /\ UNCHANGED <<cli_vars, source_vars>>
    /\ ipc = "lex"
    /\ LET got == get_next_token(text, lx)
       IN  IF got.err # ""
           THEN /\ ipc' = "done"
                /\ iout' = InlineFailed(got.err, <<>>)
                /\ UNCHANGED <<arg, lexemes>>
                /\ lx' = got.lx
           ELSE IF got.tok = None
           THEN /\ ipc' = "check"
                /\ lx' = got.lx
                /\ UNCHANGED <<arg, lexemes, iout>>
           ELSE /\ ipc' = "body"
                /\ lx' = got.lx
                /\ arg' = got.tok.s
                /\ lexemes' = Append(lexemes, got.tok.s)
                /\ UNCHANGED iout
    /\ UNCHANGED <<variant, text, build, ip>>

\* the body of the while loop of parse_with_palet
PaletBody ==
    /\ UNCHANGED <<cli_vars, source_vars>>
    /\ ipc = "body"
    /\ IF arg = <<>>
       THEN ipc' = "lex" /\ UNCHANGED <<ip, iout>>
       ELSE IF TooMany(ip.i, build.attrs)
       THEN ipc' = "done" /\ iout' = InlineFailed("has too many arguments", arg)
            /\ UNCHANGED ip
       ELSE IF Contains(arg, "=")
       THEN LET key == SplitOnce(arg, "=")[1]
                val == SplitOnce(arg, "=")[2]
                k   == AttrNamed(build.attrs, key, 1)
                got == go(val, build.attrs[k].contract)
            IN  IF k = 0
                THEN ipc' = "done" /\ iout' = InlineFailed("got an unexpected keyword", key)
                     /\ UNCHANGED ip
                ELSE IF ~got.ok
                THEN ipc' = "done" /\ iout' = InlineFailed(got.err, key)
                     /\ UNCHANGED ip
                ELSE /\ ip' = [EnterKeywordMode(ip) EXCEPT
                                 !.kwargs = setattr(@, _norm_name(build.attrs[k].n), got.v),
                                 !.i = @ + 1]
                     /\ ipc' = "lex"
                     /\ UNCHANGED iout
       ELSE IF ip.allow_positional_args
       THEN LET got == go(arg, build.attrs[ip.i + 1].contract)
            IN  IF ~got.ok
                THEN ipc' = "done" /\ iout' = InlineFailed(got.err, build.attrs[ip.i + 1].n)
                     /\ UNCHANGED ip
                ELSE /\ ip' = [ip EXCEPT
                                 !.kwargs = setattr(@, _norm_name(build.attrs[ip.i + 1].n), got.v),
                                 !.i = @ + 1]
                     /\ ipc' = "lex"
                     /\ UNCHANGED iout
       ELSE ipc' = "done"
            /\ iout' = InlineFailed("positional argument follows keyword argument", arg)
            /\ UNCHANGED ip
    /\ UNCHANGED <<variant, text, build, lx, arg, lexemes>>

\* parse_dataclass starts: the seeding loop, where a default its contract
\* rejects raises CoerceError, and text.split(",")
CmdkwStart ==
    /\ UNCHANGED <<cli_vars, source_vars>>
    /\ ipc = "start" /\ variant = "cmdkw"
    /\ IF \E k \in 1..Len(build.attrs) : SeedValue(build.attrs[k]) = Raised
       THEN ipc' = "done" /\ iout' = InlineRaised("CoerceError") /\ UNCHANGED ip
       ELSE /\ ip' = [kwargs |-> SeedCmdkw(build.attrs, 1, NoAttrs),
                      allow_positional_args |-> TRUE, i |-> 0,
                      cells |-> Split(text, ",")]
            /\ ipc' = "cell"
            /\ UNCHANGED iout
    /\ UNCHANGED <<variant, text, build, lx, arg, lexemes>>

\* one iteration of for i, arg in enumerate(text.split(","))
CmdkwBody ==
    /\ UNCHANGED <<cli_vars, source_vars>>
    /\ ipc = "cell" /\ ip.i < Len(ip.cells)
    /\ LET cell == ip.cells[ip.i + 1]
           after == IF ip.i + 1 < Len(ip.cells) THEN "cell" ELSE "check"
       IN  /\ arg' = cell
           /\ lexemes' = Append(lexemes, cell)
           /\ IF cell = <<>>
              THEN ip' = [ip EXCEPT !.i = @ + 1] /\ ipc' = after /\ UNCHANGED iout
              ELSE IF TooMany(ip.i, build.attrs)
              THEN ipc' = "done" /\ iout' = InlineFailed("has too many arguments", cell)
                   /\ UNCHANGED ip
              ELSE IF Contains(cell, "=")
              THEN LET key == SplitOnce(cell, "=")[1]
                       val == SplitOnce(cell, "=")[2]
                       k   == AttrNamed(build.attrs, key, 1)
                       got == var_f(key, build.attrs[k].contract, Str(val))
                   IN  IF k = 0
                       THEN ipc' = "done"
                            /\ iout' = InlineFailed("got an unexpected keyword", key)
                            /\ UNCHANGED ip
                       ELSE IF got = Raised
                       THEN ipc' = "done" /\ iout' = InlineFailed("CoerceError", key)
                            /\ UNCHANGED ip
                       ELSE /\ ip' = [EnterKeywordMode(ip) EXCEPT
                                        !.kwargs = setattr(@, build.attrs[k].n, got),
                                        !.i = @ + 1]
                            /\ ipc' = after
                            /\ UNCHANGED iout
              ELSE IF ip.allow_positional_args
              THEN LET name == build.attrs[ip.i + 1].n
                       got == var_f(name, build.attrs[ip.i + 1].contract, Str(cell))
                   IN  IF got = Raised
                       THEN ipc' = "done" /\ iout' = InlineRaised("CoerceError")
                            /\ UNCHANGED ip
                       ELSE /\ ip' = [ip EXCEPT !.kwargs = setattr(@, name, got),
                                                !.i = @ + 1]
                            /\ ipc' = after
                            /\ UNCHANGED iout
              ELSE ipc' = "done"
                   /\ iout' = InlineFailed("positional argument follows keyword argument", cell)
                   /\ UNCHANGED ip
    /\ UNCHANGED <<variant, text, build, lx>>

\* index of the first entry of kwargs that is still Required, 0 when none is
RECURSIVE FirstRequired(_, _, _)
FirstRequired(attrs, kwargs, k) ==
    IF k > Len(attrs) THEN 0
    ELSE IF kwargs[attrs[k]] = RequiredSentinel THEN k
    ELSE FirstRequired(attrs, kwargs, k + 1)

\* for k, v in kwargs.items(): if v is Required: raise; then return kwargs
CheckRequired ==
    /\ UNCHANGED <<cli_vars, source_vars>>
    /\ ipc = "check"
    /\ LET keys == [k \in 1..Len(build.attrs) |->
                       IF variant = "palet" THEN _norm_name(build.attrs[k].n)
                       ELSE build.attrs[k].n]
           k == FirstRequired(keys, ip.kwargs, 1)
       IN  iout' = IF k # 0 THEN InlineFailed("must be specified", keys[k])
                   ELSE InlineReturned(ip.kwargs)
    /\ ipc' = "done"
    /\ UNCHANGED <<variant, text, build, lx, ip, arg, lexemes>>

\* vanparse.parse_dataclass(text, dataclass), whole
VanParse ==
    /\ UNCHANGED <<cli_vars, source_vars>>
    /\ ipc = "start" /\ variant = "van"
    /\ LET dc == DataclassOf(build)
           made == van_parse_dataclass(text, dc)
       IN  iout' = IF made.ok
                   THEN InlineReturned([n \in {dc.fields[k].n : k \in 1..Len(dc.fields)} |->
                            made.v.l[AttrNamed(dc.fields, n, 1)]])
                   ELSE IF made.err = "uncaught TypeError" THEN InlineRaised("TypeError")
                   ELSE InlineFailed(made.err, dc.name)
    /\ lexemes' = IF text = <<>> THEN <<>> ELSE Split(text, ",")
    /\ ipc' = "done"
    /\ UNCHANGED <<variant, text, build, lx, ip, arg>>

(***************************************************************************)
(* The command lines.                                                       *)
(***************************************************************************)
\* the words of the exhaustively enumerated argument vectors
Tokens == {w_rect, w_tracks, w_output, w_o, w_h, w_a, w_1020, w_1}

\* a.mp4 --rect 10,20 --rect 30,40,#fff b.mp4
ArgvRectTwice == <<w_a, w_rect, w_1020, w_rect, w_3040fff, w_b>>

\* a.mp4 b.mp4 --rect 10,20 30,40,#fff
ArgvRectOnce == <<w_a, w_b, w_rect, w_1020, w_3040fff>>

\* --tracks 1 2 3 --output x
ArgvTracks == <<w_tracks, w_1, w_2, w_3, w_output, w_x>>

\* --tracks x --tracks
ArgvBadTracks == <<w_tracks, w_x, w_tracks>>

\* --output a.mp4 -o b.mp4
ArgvOutputTwice == <<w_output, w_a, w_o, w_b>>

\* a.mp4 --rect --help --tracks
ArgvRectHelp == <<w_a, w_rect, w_help, w_tracks>>

\* --tracks x --output -h
ArgvBadTracksHelp == <<w_tracks, w_x, w_output, w_h>>

\* the spellings of --a-b-c and of --x_y
ArgvNew == <<w_a_b_c, w_1>>

ArgvOld == <<w_a_b_c_old, w_1>>

ArgvMixed == <<w_a_b_c_mixed, w_1>>

ArgvOldAsNew == <<w_x_y_new>>

\* values of the typed scalars: 1 --count 2, 1 --count x, 1 --export a,
\* 1 --export x, 1 --count
ArgvCount == <<w_1, w_count, w_2>>

ArgvBadCount == <<w_1, w_count, w_x>>

ArgvExport == <<w_1, w_export, w_a>>

ArgvBadExport == <<w_1, w_export, w_x>>

ArgvCountLast == <<w_1, w_count>>

\* unknown words: a.mp4 --optuput, a.mp4 --out,put, a.mp4 --zzz
ArgvTypo == <<w_a, w_optuput>>

ArgvComma == <<w_a, w_output_comma>>

ArgvStrange == <<w_a, w_zzz>>

ArgVectors ==
    SeqsUpTo(Tokens, MaxArgs)
        \cup {ArgvRectTwice, ArgvRectOnce, ArgvTracks, ArgvBadTracks, ArgvOutputTwice,
              ArgvRectHelp, ArgvBadTracksHelp,
              ArgvNew, ArgvOld, ArgvMixed, ArgvOldAsNew,
              ArgvCount, ArgvBadCount, ArgvExport, ArgvBadExport, ArgvCountLast,
              ArgvTypo, ArgvComma, ArgvStrange,
              <<w_v>>, <<w_V>>}

(***************************************************************************)
(* The command line front end as a state machine.                           *)
(***************************************************************************)
InitCli ==
    /\ options = <<>>
    /\ requireds = <<>>
    /\ args = <<>>
    /\ sys_args \in ArgVectors
    \* the description is read only when the argument vector is empty
    /\ description \in (IF sys_args = <<>> THEN BOOLEAN ELSE {TRUE})
    /\ client \in Clients
    /\ nreg = 0
    /\ pc = "idle"
    /\ po = NoFrame
    /\ self = NoAttrs
    /\ outcome = NoOutcome
    /\ first = NoOutcome
    /\ nparse = 0

\* no inline parser is running
InlineOff ==
    /\ variant = "none"
    /\ text = <<>>
    /\ build = BuildABC
    /\ lx = PLexer(<<>>)
    /\ ip = NoFrame
    /\ arg = <<>>
    /\ lexemes = <<>>
    /\ ipc = "off"
    /\ iout = InlineRunning

\* make_sources is not running
SourcesOff ==
    /\ paths = <<>>
    /\ ms = NoFrame
    /\ mpc = "off"

Init == InitCli /\ InlineOff /\ SourcesOff

Next ==
    \/ add_argument
    \/ add_required
    \/ parse_args
    \/ WalkListItem
    \/ WalkPositional
    \/ WalkUnknown
    \/ WalkOption
    \/ Finish

vars == <<cli_vars, inline_vars, source_vars>>

Spec == Init /\ [][Next]_vars

(***************************************************************************)
(* The inline parsers as a state machine: one call of one parser on one     *)
(* payload.                                                                 *)
(***************************************************************************)
\* the characters of the exhaustively enumerated payloads
Alphabet == {"a", "1", ",", "=", QUOTE, BACKSLASH}

\* name="a,b\"c",x=2
TextQuoted ==
    <<"n", "a", "m", "e", "=", QUOTE, "a", ",", "b", BACKSLASH, QUOTE, "c", QUOTE,
      ",", "x", "=", "2">>

\* 1,2,3 and a=1,c=3
TextPositional == <<"1", ",", "2", ",", "3">>

TextKeyword == <<"a", "=", "1", ",", "c", "=", "3">>

\* a=1,2: a positional cell after a keyword cell
TextKeywordThenPositional == <<"a", "=", "1", ",", "2">>

\* "\aa": a quoted lexeme with an escape followed by one more character
TextEscaped == <<QUOTE, BACKSLASH, "a", "a", QUOTE>>

\* 1,a=2 and a=1,a=2: attribute a supplied twice
TextPositionalThenKeyword == <<"1", ",", "a", "=", "2">>

TextKeywordTwice == <<"a", "=", "1", ",", "a", "=", "2">>

Texts ==
    SeqsUpTo(Alphabet, MaxText)
        \cup {TextQuoted, TextPositional, TextKeyword, TextKeywordThenPositional,
              TextEscaped, TextPositionalThenKeyword, TextKeywordTwice}

\* no command line is being parsed
CliOff ==
    /\ options = <<>>
    /\ requireds = <<>>
    /\ args = <<>>
    /\ description = TRUE
    /\ client = <<>>
    /\ nreg = 0
    /\ sys_args = <<>>
    /\ pc = "off"
    /\ po = NoFrame
    /\ self = NoAttrs
    /\ outcome = NoOutcome
    /\ first = NoOutcome
    /\ nparse = 0

InitInline ==
    /\ CliOff
    /\ SourcesOff
    /\ variant \in {"lexer", "palet", "cmdkw", "van"}
    /\ text \in Texts
    /\ build \in Builds
    /\ lx = PLexer(<<>>)
    /\ ip = NoFrame
    /\ arg = <<>>
    /\ lexemes = <<>>
    /\ ipc = "start"
    /\ iout = InlineRunning

NextInline ==
    \/ LexerStart
    \/ LexerNext
    \/ PaletStart
    \/ GetNextToken
    \/ PaletBody
    \/ CmdkwStart
    \/ CmdkwBody
    \/ CheckRequired
    \/ VanParse

SpecInline == InitInline /\ [][NextInline]_vars

(***************************************************************************)
(* The callers of PLexer on their own: a loop that only lexes, and          *)
(* parse_with_palet.  A call is sequential code that runs until it returns  *)
(* or raises, so a step that can be taken is taken.                         *)
(***************************************************************************)
InitLexer ==
    /\ InitInline
    /\ variant \in {"lexer", "palet"}
    \* a loop that only lexes reads no attributes
    /\ variant = "lexer" => build = BuildABC

NextLexer ==
    \/ LexerStart
    \/ LexerNext
    \/ PaletStart
    \/ GetNextToken
    \/ PaletBody
    \/ CheckRequired

SpecLexer == InitLexer /\ [][NextLexer]_vars /\ WF_vars(NextLexer)

(***************************************************************************)
(* edit.py: make_sources(paths, ffmpeg, log), one iteration of its for loop *)
(* per step.  A dict is a function on its keys.                             *)
(***************************************************************************)
\* the longest list of paths
MaxPaths == 3

\* the paths a list is made of
PathNames == {w_a, w_b, w_x}

\* {}
EmptyDict == [k \in {} |-> 0]

\* FileInfo(path, i, ffmpeg, log): what it is built from
FileInfo(path, index) == [path |-> path, index |-> index]

\* a membership test that never finds the path
Seen_Never(path, used) == FALSE

\* path in used_paths
Seen(path, used) == path \in DOMAIN used

\* d[key] = value
setitem(d, key, value) == [k \in DOMAIN d \cup {key} |-> IF k = key THEN value ELSE d[k]]

\* the statements before the for loop
make_sources ==
    /\ UNCHANGED <<cli_vars, inline_vars>>
    /\ mpc = "start"
    /\ ms' = [used_paths |-> EmptyDict, sources |-> EmptyDict, inputs |-> <<>>,
              i |-> 0, done |-> 0]
    /\ mpc' = "loop"
    /\ UNCHANGED paths

\* for path in paths: one iteration
ForPath ==
    /\ UNCHANGED <<cli_vars, inline_vars>>
    /\ mpc = "loop" /\ ms.done < Len(paths)
    /\ LET path == paths[ms.done + 1]
       IN  IF Seen(path, ms.used_paths)
           THEN ms' = [ms EXCEPT !.inputs = Append(@, ms.used_paths[path]),
                                 !.done = @ + 1]
           ELSE ms' = [ms EXCEPT !.sources = setitem(@, ms.i, FileInfo(path, ms.i)),
                                 !.inputs = Append(@, ms.i),
                                 !.used_paths = setitem(@, path, ms.i),
                                 !.i = @ + 1,
                                 !.done = @ + 1]
    /\ UNCHANGED <<paths, mpc>>

\* return sources, inputs
ReturnSources ==
    /\ UNCHANGED <<cli_vars, inline_vars>>
    /\ mpc = "loop" /\ ms.done >= Len(paths)
    /\ mpc' = "done"
    /\ UNCHANGED <<paths, ms>>

InitSources ==
    /\ CliOff
    /\ InlineOff
    /\ paths \in SeqsUpTo(PathNames, MaxPaths)
    /\ ms = NoFrame
    /\ mpc = "start"

NextSources ==
    \/ make_sources
    \/ ForPath
    \/ ReturnSources

SpecSources == InitSources /\ [][NextSources]_vars

(***************************************************************************)
(* Properties of the command line front end (checked under Spec).           *)
(***************************************************************************)
\* a parse_args call has ended and no other has started
ParseEnded == pc = "idle" /\ nparse >= 1

\* the two records of the rect example
RectA == Obj(<<Str(w_10), Str(w_20), Str(w_000)>>)

RectB == Obj(<<Str(w_30), Str(w_40), Str(w_fff)>>)

\* the result of the rect example: positionals a.mp4, b.mp4 and the two records
RectExampleResult ==
    /\ outcome.kind = "result"
    /\ outcome.attrs[w_input] = List(<<Str(w_a), Str(w_b)>>)
    /\ outcome.attrs[to_key(OptRect)] = List(<<RectA, RectB>>)

\* C1 as stated: with a list positional and the structured list flag --rect,
\* a.mp4 --rect 10,20 --rect 30,40,#fff b.mp4 parses without error to
\* positionals [a.mp4, b.mp4] and rect [{10,20,#000}, {30,40,#fff}].
C1_Original ==
    (ParseEnded /\ client = ClientRect /\ sys_args = ArgvRectTwice) => RectExampleResult

\* C1 amended: that vector fails at the second --rect with "Cannot repeat
\* option" and returns nothing; the records of one --rect occurrence follow
\* it, so a.mp4 b.mp4 --rect 10,20 30,40,#fff parses without error to
\* positionals [a.mp4, b.mp4] and rect [{10,20,#000}, {30,40,#fff}].
C1_RectExample ==
    (ParseEnded /\ client = ClientRect) =>
        /\ sys_args = ArgvRectTwice => outcome = LogError("Cannot repeat option", w_rect)
        /\ sys_args = ArgvRectOnce => RectExampleResult

C1_Witness ==
    ParseEnded /\ client = ClientRect /\ sys_args = ArgvRectOnce /\ outcome.kind = "result"

\* the option a word resolves to takes one value word after it
C2_TakesValue(word) ==
    /\ get_option(word, options) # 0
    /\ options[get_option(word, options)].nargs = "1"
    /\ options[get_option(word, options)].action # "store_true"

\* position p of sys_args is looked at as a token of its own, not taken as
\* the value of the scalar option before it
RECURSIVE C2_Visited(_)
C2_Visited(p) ==
    IF p = 1 THEN TRUE
    ELSE ~(C2_Visited(p - 1) /\ C2_TakesValue(sys_args[p - 1]))

\* the position of the first word after p that resolves to a declared option,
\* or the position after the last word
RECURSIVE C2_NextOption(_)
C2_NextOption(p) ==
    IF p + 1 > Len(sys_args) THEN Len(sys_args) + 1
    ELSE IF get_option(sys_args[p + 1], options) # 0 THEN p + 1
    ELSE C2_NextOption(p + 1)

\* a list option's word stands at position p
C2_ListOptionAt(p) ==
    /\ C2_Visited(p)
    /\ get_option(sys_args[p], options) # 0
    /\ options[get_option(sys_args[p], options)].nargs # "1"

\* one element of a list option's value: the word converted by the element type
C2_Element(option, word) ==
    IF option.dataclass # NoDataclass
    THEN van_parse_dataclass(word, option.dataclass).v
    ELSE PyType(option.type, Str(word))

\* position p lies in the run of a list option
C2_InRun(p) ==
    \E q \in 1..(p - 1) : C2_ListOptionAt(q) /\ p < C2_NextOption(q)

\* the words outside every run that are neither options nor values of options
RECURSIVE C2_Bare(_)
C2_Bare(p) ==
    IF p > Len(sys_args) THEN <<>>
    ELSE IF C2_Visited(p) /\ get_option(sys_args[p], options) = 0 /\ ~C2_InRun(p)
    THEN <<Str(sys_args[p])>> \o C2_Bare(p + 1)
    ELSE C2_Bare(p + 1)

\* C2: after a successful parse a list option that stood at position p holds
\* exactly the words p+1 .. j-1, in order, each converted by its element type,
\* j being the next word that resolves to a declared option (or the end); the
\* words of a run go to no other list: the positional list holds only the
\* words outside every run.
C2_ListRun ==
    (ParseEnded /\ outcome.kind = "result") =>
        /\ \A p \in 1..Len(sys_args) :
              C2_ListOptionAt(p) =>
                 LET option == options[get_option(sys_args[p], options)]
                     j == C2_NextOption(p)
                 IN  outcome.attrs[to_key(option)] =
                        List([k \in 1..(j - p - 1) |-> C2_Element(option, sys_args[p + k])])
        /\ po.setting_req_list => outcome.attrs[po.req_list_name] = List(C2_Bare(1))

C2_Witness ==
    /\ ParseEnded /\ outcome.kind = "result" /\ sys_args = ArgvTracks
    /\ outcome.attrs[to_key(OptTracks)] = List(<<Int(w_1), Int(w_2), Int(w_3)>>)

\* C3 as stated: whenever the word the loop looks at resolves to an option
\* that was already used, the parse ends there with "Cannot repeat option".
C3_Original ==
    [][(InLoop /\ CurOption # 0 /\ InSeq(options[CurOption], po.used_options))
         => (pc' = "idle"
             /\ outcome' = LogError("Cannot repeat option", options[CurOption].names[1]))]_vars

\* C4 as stated: the second parse of the same argument vector on the same
\* parser ends as the first did.
C4_Original == (pc = "idle" /\ nparse >= 2) => outcome = first

\* C5 as stated: while a parse runs, the parser's options, requireds and args
\* stay as they were.
C5_Original ==
    [][pc = "walk" => (options' = options /\ requireds' = requireds /\ args' = args)]_vars

(***************************************************************************)
(* Properties of the inline lexer and parsers (checked under SpecInline).   *)
(***************************************************************************)
NonEmpty(cell) == cell # <<>>

\* name="a,b\"c"
QuotedField ==
    <<"n", "a", "m", "e", "=", QUOTE, "a", ",", "b", BACKSLASH, QUOTE, "c", QUOTE>>

\* C6 as stated: name="a,b\"c",x=2 lexes to exactly two non-empty lexemes, the
\* keyword field with its quoted literal and x=2.
C6_Original ==
    (variant = "lexer" /\ ipc = "done" /\ text = TextQuoted) =>
        SelectSeq(lexemes, NonEmpty) = <<QuotedField, <<"x", "=", "2">>>>

\* the payload opens a quote with its first character and holds no other quote
C7_Unterminated ==
    /\ text # <<>> /\ text[1] = QUOTE
    /\ \A k \in 2..Len(text) : text[k] # QUOTE

\* C7 as stated: a payload whose quote is never closed makes the lexer, and so
\* parse_with_palet, fail.
C7_Original ==
    (variant \in {"lexer", "palet"} /\ ipc = "done" /\ C7_Unterminated) => iout.kind = "error"

\* a value cell: not empty, without separators or quotes, and a text the
\* evaluator of parse_with_palet evaluates
C8_Plain(cell) ==
    /\ cell # <<>>
    /\ \A k \in 1..Len(cell) : cell[k] \notin {",", "=", QUOTE, BACKSLASH}
    /\ variant = "palet" => Evaluate(cell).ok

\* the value a parser stores for a value cell under a contract that accepts it
C8_Stored(cell) == IF variant = "palet" THEN Evaluate(cell).v ELSE Str(cell)

\* a keyword cell name=value of a declared attribute with a plain value
C8_Keyword(cell) ==
    /\ Contains(cell, "=")
    /\ \E k \in 1..Len(build.attrs) : build.attrs[k].n = SplitOnce(cell, "=")[1]
    /\ C8_Plain(SplitOnce(cell, "=")[2])

\* the value of the last keyword cell that names n, the default d when none does
RECURSIVE C8_Last(_, _, _, _)
C8_Last(cells, k, n, d) ==
    IF k = 0 THEN d
    ELSE IF SplitOnce(cells[k], "=")[1] = n THEN C8_Stored(SplitOnce(cells[k], "=")[2])
    ELSE C8_Last(cells, k - 1, n, d)

\* C8: with attributes a, b, c that all have defaults and contracts that accept
\* the values, the positional payload v1,v2,v3 gives a = v1, b = v2, c = v3, and
\* a keyword payload (a=v1,c=v3 among them) gives each named attribute its
\* value and leaves every other attribute at its default.
C8_RoundTrip ==
    (variant \in {"palet", "cmdkw", "van"} /\ ipc = "done" /\ build = BuildABC) =>
        LET cells == Split(text, ",")
        IN  /\ (Len(cells) = 3 /\ \A k \in 1..3 : C8_Plain(cells[k])) =>
                  /\ iout.kind = "result"
                  /\ \A k \in 1..3 : iout.kwargs[build.attrs[k].n] = C8_Stored(cells[k])
            /\ (Len(cells) <= 3 /\ \A k \in 1..Len(cells) : C8_Keyword(cells[k])) =>
                  /\ iout.kind = "result"
                  /\ \A k \in 1..3 :
                        iout.kwargs[build.attrs[k].n] =
                           C8_Last(cells, Len(cells), build.attrs[k].n, build.attrs[k].default)

C8_Witness ==
    /\ variant = "palet" /\ ipc = "done" /\ build = BuildABC /\ text = TextKeyword
    /\ iout.kind = "result"
    /\ iout.kwargs[<<"b">>] = Str(<<"q">>)
    /\ iout.kwargs[<<"c">>] = Int(w_3)

\* the lexemes the loop body has dealt with
C9_Handled == IF ipc = "body" THEN SubSeq(lexemes, 1, Len(lexemes) - 1) ELSE lexemes

\* C9: once a lexeme with "=" has been handled, keyword mode is never left, and
\* no parse that returns has handled a non-empty lexeme without "=" after one
\* with "="; a=1,2 fails in every parser.
C9_KeywordOneWay ==
    /\ (variant \in {"palet", "cmdkw"} /\ ipc \in {"lex", "body", "cell", "check"}
            /\ \E k \in 1..Len(C9_Handled) : Contains(C9_Handled[k], "="))
          => ~ip.allow_positional_args
    /\ (variant \in {"palet", "cmdkw", "van"} /\ ipc = "done" /\ iout.kind = "result")
          => ~\E j, k \in 1..Len(lexemes) :
                 /\ j < k
                 /\ Contains(lexemes[j], "=")
                 /\ lexemes[k] # <<>> /\ ~Contains(lexemes[k], "=")
    /\ (variant \in {"palet", "cmdkw", "van"} /\ ipc = "done"
            /\ text = TextKeywordThenPositional)
          => iout.kind \in {"error", "raised"}

C9_Witness ==
    /\ variant = "cmdkw" /\ ipc = "done" /\ text = TextKeywordThenPositional
    /\ iout.msg = "positional argument follows keyword argument"

\* C10 as stated: no mapping an inline parser returns holds an attribute that
\* is still unresolved (the Required sentinel or another placeholder).
C10_Original ==
    (variant \in {"palet", "cmdkw"} /\ ipc = "done" /\ iout.kind = "result") =>
        \A n \in DOMAIN iout.kwargs :
            iout.kwargs[n] # RequiredSentinel /\ iout.kwargs[n].t # "contract"

(***************************************************************************)
(* Further properties of the command line front end (checked under Spec).   *)
(***************************************************************************)
\* the loop looks at a word that resolves to an option not used before in
\* this parse, and the word after it is -h or --help
C11_OptionBeforeHelp ==
    /\ InLoop /\ CurOption # 0
    /\ ~InSeq(options[CurOption], po.used_options)
    /\ po.i + 2 <= Len(sys_args)
    /\ sys_args[po.i + 2] \in {w_h, w_help}

\* flushing the list in progress raises: a collected word is not of its type
C11_FlushRaises ==
    /\ po.op_list_name # None
    /\ set_arg_list(self, po.op_list_name, po.option_list, po.op_list_type).ok = FALSE

\* C11 as stated: whenever the word looked at resolves to an option not yet
\* used and the next word is -h or --help, the parse ends there with that
\* option's help, whatever the kind of the option.
C11_Original ==
    [][C11_OptionBeforeHelp
          => (pc' = "idle" /\ outcome' = Exit("option help", options[CurOption].names[1]))]_vars

\* C11 amended: the list in progress is flushed first. When that flush
\* succeeds, or no list is in progress, the parse ends there with that
\* option's help and nothing else: no result, no later word looked at, no
\* program help. When the flush fails, the parse ends there with that failure
\* and no help is rendered.
C11_OptionHelp ==
    [][C11_OptionBeforeHelp
          => /\ pc' = "idle" /\ po' = po /\ self' = self
             /\ outcome' = IF C11_FlushRaises THEN Uncaught("ValueError")
                           ELSE Exit("option help", options[CurOption].names[1])]_vars

C11_Witness ==
    /\ ParseEnded /\ sys_args = ArgvRectHelp
    /\ outcome = Exit("option help", w_rect)
    /\ po.i = 1

\* two words that differ at most in hyphen versus underscore after the two
\* leading characters
C12_SameButSeparators(word, name) ==
    /\ Len(word) = Len(name)
    /\ \A k \in 1..Len(word) :
          \/ word[k] = name[k]
          \/ k > 2 /\ word[k] \in {"-", "_"} /\ name[k] \in {"-", "_"}

\* the word is a declared name, or a declared name with every hyphen after
\* its two leading characters written as an underscore
C12_Spells(word, name) ==
    \/ word = name
    \/ word = SubSeq(name, 1, 2)
                \o [k \in 1..(Len(name) - 2) |->
                       IF name[k + 2] = "-" THEN "_" ELSE name[k + 2]]

\* the first declared option one of whose names the word spells, 0 if none
C12_FirstSpelled(word) ==
    LET hits == {k \in 1..Len(options) :
                    \E n \in 1..Len(options[k].names) : C12_Spells(word, options[k].names[n])}
    IN  IF hits = {} THEN 0 ELSE CHOOSE k \in hits : \A j \in hits : k <= j

\* the key of the list option being collected, if any
C12_ListKey == IF po.op_list_name = None THEN {} ELSE {po.op_list_name.s}

\* C12 as stated: a word that differs from a declared name only in hyphens
\* versus underscores after the leading dashes, in either direction and for
\* any subset of the separators, resolves to that option.
C12_Original ==
    \A k \in 1..Len(options) : \A n \in 1..Len(options[k].names) :
        (InLoop /\ C12_SameButSeparators(CurArg, options[k].names[n])) => CurOption = k

\* C12 amended: a word resolves to an option exactly when it is one of its
\* declared names or a declared name with every hyphen after the two leading
\* characters written as an underscore (mixed spellings and the spelling of a
\* declared underscore with a hyphen resolve to nothing); it resolves to the
\* first such option, and the step then writes no attribute other than
\* to_key(option) and the list that was being collected.  --a_b_c 1 stores
\* "1" under a_b_c for the option declared as --a-b-c.
C12_Normalized ==
    /\ [](InLoop => CurOption = C12_FirstSpelled(CurArg))
    /\ [][(InLoop /\ CurOption # 0 /\ pc' = "walk")
            => \A key \in DOMAIN self' :
                  (key \notin DOMAIN self \/ self'[key] # self[key])
                     => key \in {to_key(options[CurOption])} \cup C12_ListKey]_vars
    /\ []((ParseEnded /\ client = ClientNames /\ sys_args \in {ArgvNew, ArgvOld})
            => /\ outcome.kind = "result"
               /\ outcome.attrs[<<"a", "_", "b", "_", "c">>] = Str(w_1))
    /\ []((ParseEnded /\ client = ClientNames /\ sys_args \in {ArgvMixed, ArgvOldAsNew})
            => outcome.kind = "error" /\ StartsWith(outcome.about, sys_args[1]))

C12_Witness ==
    /\ ParseEnded /\ client = ClientNames /\ sys_args = ArgvOld
    /\ outcome.kind = "result"
    /\ outcome.attrs[<<"a", "_", "b", "_", "c">>] = Str(w_1)

\* the loop looks at a word that resolves to a scalar option that is not a
\* flag, and the word after it, if any, is not a help marker
C13_ScalarAt ==
    /\ InLoop /\ CurOption # 0
    /\ options[CurOption].nargs = "1"
    /\ options[CurOption].action # "store_true"
    /\ po.i + 2 <= Len(sys_args) => sys_args[po.i + 2] \notin {w_h, w_help}

\* the option is taken up: it was not used before and the list in progress,
\* if any, is flushed without failure
C13_TakenUp == ~InSeq(options[CurOption], po.used_options) /\ ~C11_FlushRaises

\* a word as a value of a spec: whether its type converts it and its choice
\* set, if any, holds it, and the converted value
C13_Valid(spec, word) ==
    /\ spec.type = "int" => IsIntLiteral(word)
    /\ spec.has_choices => \E k \in 1..Len(spec.choices) : spec.choices[k] = Str(word)

C13_Converted(spec, word) == IF spec.type = "int" THEN Int(IntText(word)) ELSE Str(word)

\* C13: a scalar option that is taken up at position i, with no help marker
\* after it, consumes exactly the word at i+1 as its value, whatever that word
\* looks like: a valid word is stored converted under the option's key, the
\* loop goes on at i+2 and the word joins no list; when the option is the
\* last word the parse ends with "needs argument" and stores nothing.
C13_ScalarArity ==
    [][(C13_ScalarAt /\ C13_TakenUp)
          => LET option == options[CurOption]
             IN  IF po.i + 1 = Len(sys_args)
                 THEN /\ pc' = "idle" /\ self' = self
                      /\ outcome' = LogError("needs argument", option.names[1])
                 ELSE IF C13_Valid(option, sys_args[po.i + 2])
                 THEN /\ pc' = "walk"
                      /\ po'.i = po.i + 2
                      /\ self'[to_key(option)] = C13_Converted(option, sys_args[po.i + 2])
                      /\ po'.req_list = po.req_list
                      /\ po'.option_list = <<>> /\ ~po'.setting_op_list
                 ELSE pc' = "idle" /\ outcome'.kind # "result" /\ self' = self]_vars

\* --output --rect: the word --rect, a declared option, is the value
C13_Witness ==
    /\ ParseEnded /\ client = ClientList /\ sys_args = <<w_output, w_rect>>
    /\ outcome.kind = "result"
    /\ outcome.attrs[<<"o", "u", "t", "p", "u", "t">>] = Str(w_rect)
    /\ outcome.attrs[<<"r", "e", "c", "t">>] = List(<<>>)

\* the loop looks at a word that is to be stored as a scalar value and that
\* the type cannot convert or the choice set does not hold: the value of a
\* scalar option that is taken up, or a word for a scalar positional
C14_InvalidScalar ==
    \/ /\ C13_ScalarAt /\ C13_TakenUp
       /\ po.i + 2 <= Len(sys_args)
       /\ ~C13_Valid(options[CurOption], sys_args[po.i + 2])
    \/ /\ InLoop /\ CurOption = 0 /\ ~po.setting_op_list
       /\ requireds # <<>> /\ requireds[1].nargs = "1"
       /\ ~StartsWith(CurArg, <<"-", "-">>)
       /\ ~C13_Valid(requireds[1], CurArg)

\* C14 as stated: such a value makes the parse fail with a reported error and
\* nothing is stored.
C14_Original ==
    [][C14_InvalidScalar => (pc' = "idle" /\ outcome'.kind = "error" /\ self' = self)]_vars

\* a step that is a call of parse_args
C15_Called == pc = "idle" /\ (pc' = "walk" \/ nparse' = nparse + 1)

\* C15: parse_args called with no words and a description ends at once with
\* the description printed; called with exactly -v or exactly -V it ends at
\* once with the version printed. Either way the process exits without an
\* error, no ParseOptions is built and the parser is left as it was.
C15_ShortCircuit ==
    [][C15_Called
          => /\ (sys_args = <<>> /\ description)
                   => /\ pc' = "idle" /\ outcome' = Exit("description", <<>>)
                      /\ self' = self /\ po' = po
                      /\ options' = options /\ requireds' = requireds /\ args' = args
             /\ (sys_args \in {<<w_v>>, <<w_V>>})
                   => /\ pc' = "idle" /\ outcome' = Exit("version", <<>>)
                      /\ self' = self /\ po' = po
                      /\ options' = options /\ requireds' = requireds /\ args' = args]_vars

C15_Witness ==
    /\ ParseEnded /\ sys_args = <<w_V>> /\ outcome = Exit("version", <<>>)
    /\ self = NoAttrs /\ po = NoFrame

\* the loop looks at a word that matches no declared option while no list
\* option is collecting and no required positional can take it
C16_NothingTakes ==
    /\ InLoop /\ CurOption = 0 /\ ~po.setting_op_list
    /\ requireds = <<>> \/ StartsWith(CurArg, <<"-", "-">>)

\* the declared names, in registration order
C16_DeclaredNames ==
    LET flat[k \in 0..Len(options)] ==
            IF k = 0 THEN <<>> ELSE flat[k - 1] \o options[k].names
    IN  flat[Len(options)]

\* the word without its commas is a declared name
C16_CommaInName ==
    \E k \in 1..Len(C16_DeclaredNames) :
        C16_DeclaredNames[k] = SelectSeq(CurArg, LAMBDA c : c # ",")

\* C16 as stated: such a word ends the parse with an "Unknown option" or
\* "Unknown short" error.
C16_Original ==
    [][C16_NothingTakes
          => /\ pc' = "idle" /\ outcome'.kind = "error"
             /\ outcome'.msg \in {"Unknown option", "Unknown short"}]_vars

\* C16 amended: such a word ends the parse with an error and no result. When
\* the word without its commas is a declared name the error says that the
\* option has an unnecessary comma; otherwise it is "Unknown option" for a
\* word that starts with "--" and "Unknown short" for any other, naming the
\* word, followed by the close declared names when there are any:
\* --optuput proposes --output, --zzz proposes nothing.
C16_Unknown ==
    /\ [][C16_NothingTakes
            => /\ pc' = "idle" /\ outcome'.kind = "error"
               /\ self' = self /\ outcome'.attrs = NoAttrs
               /\ IF C16_CommaInName
                  THEN outcome' = LogError("has an unnecessary comma", CurArg)
                  ELSE /\ outcome'.msg = IF Len(CurArg) >= 2 /\ CurArg[1] = "-" /\ CurArg[2] = "-"
                                          THEN "Unknown option" ELSE "Unknown short"
                       /\ SubSeq(outcome'.about, 1, Len(CurArg)) = CurArg]_vars
    /\ []((ParseEnded /\ client = ClientList /\ sys_args = ArgvTypo)
            => outcome = LogError("Unknown option", w_optuput \o <<"\n">> \o w_output))
    /\ []((ParseEnded /\ client = ClientList /\ sys_args = ArgvStrange)
            => outcome = LogError("Unknown option", w_zzz))

C16_Witness ==
    /\ ParseEnded /\ client = ClientList /\ sys_args = ArgvTypo
    /\ outcome = LogError("Unknown option", w_optuput \o <<"\n">> \o w_output)

\* the help flag is set in the attributes
C17_HelpSet(attrs) == w_helpkey \in DOMAIN attrs /\ attrs[w_helpkey] = Bool(TRUE)

\* the walk is over: the statements after the loop are next
C17_AtEnd == pc = "walk" /\ po.i >= Len(sys_args)

\* a pending list holds a word its element type cannot convert
C17_PendingRaises ==
    \/ /\ po.setting_op_list
       /\ ~set_arg_list(self, po.op_list_name, po.option_list, po.op_list_type).ok
    \/ /\ po.setting_req_list
       /\ ~set_arg_list(self, Str(po.req_list_name), po.req_list, po.req_list_type).ok

\* C17: the help flag, once set, stays set for the rest of the walk; when the
\* walk reaches the end of the words with the flag set, the pending lists are
\* flushed and, unless a flush fails, the program help is rendered and the
\* process exits; no returned result has a true help entry.
C17_ProgramHelp ==
    /\ [][(pc = "walk" /\ pc' = "walk" /\ C17_HelpSet(self)) => C17_HelpSet(self')]_vars
    /\ [][(C17_AtEnd /\ C17_HelpSet(self))
            => /\ pc' = "idle"
               /\ IF C17_PendingRaises THEN outcome'.kind = "raised"
                  ELSE /\ outcome' = Exit("program help", <<>>)
                       /\ po.setting_op_list
                             => self'[po.op_list_name.s] =
                                   List([k \in 1..Len(po.option_list) |->
                                           PyType(po.op_list_type, po.option_list[k])])
                       /\ po.setting_req_list
                             => self'[po.req_list_name] = List(po.req_list)]_vars
    /\ [](outcome.kind = "result" => ~C17_HelpSet(outcome.attrs))

\* -h --tracks 1: the list is flushed, then the program help is rendered
C17_Witness ==
    /\ ParseEnded /\ sys_args = <<w_h, w_tracks, w_1>>
    /\ outcome = Exit("program help", <<>>)
    /\ self[<<"t", "r", "a", "c", "k", "s">>] = List(<<Int(w_1)>>)

(***************************************************************************)
(* Further properties of the inline lexer and parsers (checked under        *)
(* SpecInline).                                                             *)
(***************************************************************************)
\* the position of the first quote at or after k that no backslash escapes,
\* 0 when there is none
RECURSIVE C18_Closing(_, _)
C18_Closing(txt, k) ==
    IF k > Len(txt) THEN 0
    ELSE IF txt[k] = BACKSLASH THEN C18_Closing(txt, k + 2)
    ELSE IF txt[k] = QUOTE THEN k
    ELSE C18_Closing(txt, k + 1)

\* C18 as stated: when the payload opens with a quote that a matching
\* unescaped quote closes, the first token is the payload from the opening to
\* the closing quote, character for character.
C18_Original ==
    (/\ variant = "lexer" /\ Len(lexemes) >= 1
     /\ text # <<>> /\ text[1] = QUOTE /\ C18_Closing(text, 2) # 0)
        => lexemes[1] = SubSeq(text, 1, C18_Closing(text, 2))

\* the cells of the payload that are not empty, in order
C19_Filled == SelectSeq(Split(text, ","), NonEmpty)

\* what is expected of a payload of positional cells and empty cells
C19_Expected(parser) ==
    (/\ variant = parser /\ ipc = "done" /\ build = BuildABC
     /\ \A k \in 1..Len(C19_Filled) : C8_Plain(C19_Filled[k]))
        => IF Len(C19_Filled) > Len(build.attrs)
           THEN iout.kind = "error" /\ iout.msg = "has too many arguments"
           ELSE /\ iout.kind = "result"
                /\ \A k \in 1..Len(build.attrs) :
                      iout.kwargs[build.attrs[k].n] =
                         IF k <= Len(C19_Filled) THEN C8_Stored(C19_Filled[k])
                         ELSE build.attrs[k].default

\* C19 as stated: in every inline parser empty cells are skipped without
\* shifting the field index: the k-th cell that is not empty goes to the k-th
\* attribute, and "too many arguments" is raised exactly when there are more
\* such cells than attributes.
C19_Original == C19_Expected("palet") /\ C19_Expected("cmdkw") /\ C19_Expected("van")

(***************************************************************************)
(* The positional fallback of the command line front end (checked under     *)
(* Spec).                                                                   *)
(***************************************************************************)
\* the loop looks at a word that matches no declared option while no list
\* option is collecting and the parser still holds a required positional
C20_PositionalOpen ==
    /\ InLoop /\ CurOption = 0 /\ ~po.setting_op_list
    /\ requireds # <<>>

C20_DoubleDash(word) == Len(word) >= 2 /\ word[1] = "-" /\ word[2] = "-"

\* the word is taken as a positional: stored converted for a scalar
\* positional, appended for a list positional
C20_Consumed ==
    /\ pc' = "walk" /\ po'.i = po.i + 1
    /\ IF requireds[1].nargs = "1"
       THEN self'[po.req_list_name] = C13_Converted(requireds[1], CurArg)
       ELSE po'.req_list = Append(po.req_list, Str(CurArg))

C20_ReportedUnknown ==
    /\ pc' = "idle"
    /\ outcome'.msg \in {"Unknown option", "Unknown short", "has an unnecessary comma"}

\* C20 as stated: such a word is never reported as an unknown option,
\* whatever its spelling, and is consumed as a positional.
C20_Original ==
    [][C20_PositionalOpen
          => /\ ~C20_ReportedUnknown
             /\ (requireds[1].nargs # "1" \/ C13_Valid(requireds[1], CurArg))
                   => C20_Consumed]_vars

\* C20 amended: such a word is consumed as a positional exactly when it does
\* not start with "--": it is then appended to a list positional, or stored
\* converted for a scalar positional (a word the scalar's type cannot convert
\* or its choice set does not hold ends the parse instead). A word that
\* starts with "--" is reported as unknown although a positional remains.
C20_Fallback ==
    [][C20_PositionalOpen
          => IF C20_DoubleDash(CurArg)
             THEN C20_ReportedUnknown /\ outcome'.kind = "error" /\ self' = self
             ELSE IF requireds[1].nargs # "1" \/ C13_Valid(requireds[1], CurArg)
             THEN C20_Consumed
             ELSE pc' = "idle" /\ outcome'.kind \in {"error", "raised"}
                  /\ self' = self]_vars

\* -o, which this grammar does not declare, is taken as a positional
C20_Witness ==
    /\ ParseEnded /\ client = ClientRect /\ sys_args = <<w_o, w_1020>>
    /\ outcome.kind = "result"
    /\ outcome.attrs[w_input] = List(<<Str(w_o), Str(w_1020)>>)

(***************************************************************************)
(* Scalar positionals (checked under Spec).                                 *)
(***************************************************************************)
\* the positionals the client declares, in declaration order
C21_Declared == SelectSeq(client, LAMBDA spec : spec._type = "required")

\* the first parse_args call on a parser whose positionals are all scalar
\* has ended, and every word of its argument vector was a bare word that the
\* positional in turn accepts
C21_BareVector ==
    /\ ParseEnded /\ nparse = 1
    /\ C21_Declared # <<>> /\ sys_args # <<>>
    /\ \A k \in 1..Len(C21_Declared) : C21_Declared[k].nargs = "1"
    /\ \A k \in 1..Len(sys_args) :
          /\ get_option(sys_args[k], options) = 0
          /\ sys_args[k][1] # "-"
          /\ k <= Len(C21_Declared) => C13_Valid(C21_Declared[k], sys_args[k])

\* C21 as stated: the k-th bare word is stored converted under the k-th
\* declared positional's own name, and a bare word after all positionals are
\* consumed fails as unknown.
C21_Original ==
    C21_BareVector
       => IF Len(sys_args) > Len(C21_Declared)
          THEN outcome.kind = "error" /\ outcome.msg = "Unknown short"
          ELSE /\ outcome.kind = "result"
               /\ \A k \in 1..Len(sys_args) :
                     /\ C21_Declared[k].names[1] \in DOMAIN outcome.attrs
                     /\ outcome.attrs[C21_Declared[k].names[1]] =
                           C13_Converted(C21_Declared[k], sys_args[k])

(***************************************************************************)
(* Contract failures in the inline parsers (checked under SpecInline).      *)
(***************************************************************************)
\* C22 as stated: in parse_with_palet and in cmdkw.parse_dataclass a value
\* that a field's contract rejects, be it positional, keyword or the seeded
\* default, ends the call with a ParserError: no other exception leaves the
\* parser and no mapping is returned.
C22_Original ==
    (variant \in {"palet", "cmdkw"} /\ ipc = "done") => iout.kind # "raised"

(***************************************************************************)
(* The keys of a grammar (checked under Spec).                              *)
(***************************************************************************)
\* C23 as stated: whatever registrations have been made on a parser, no two
\* registered specs have the same key.
C23_Original ==
    \A j, k \in 1..Len(args) : j # k => to_key(args[j]) # to_key(args[k])

(***************************************************************************)
(* Termination of the lexer (checked under SpecLexer).                      *)
(***************************************************************************)
\* a get_next_token call has just handed a lexeme to its caller
C24_Handed == lexemes' # lexemes

\* C24: the position of the lexer never decreases and every call that
\* returns a lexeme moves it forward by at least one character, so a payload
\* yields at most as many lexemes as it has characters; every call of the
\* token loop, and of parse_with_palet, ends, with a result or with an error.
C24_Termination ==
    /\ [][/\ ipc \in {"tokens", "lex", "body"} => lx'.pos >= lx.pos
          /\ C24_Handed => lx'.pos >= lx.pos + 1]_vars
    /\ [](Len(lexemes) <= Len(text))
    /\ <>(ipc = "done" /\ iout.kind \in {"result", "error"})

\* 1,2,3 was lexed to its end by parse_with_palet, which returned
C24_Witness ==
    /\ variant = "palet" /\ ipc = "done" /\ text = TextPositional
    /\ lexemes = <<<<"1">>, <<"2">>, <<"3">>>>
    /\ lx.char = NoChar /\ lx.pos >= Len(text)
    /\ iout.kind = "result"

(***************************************************************************)
(* The entries of options that are not on the command line (checked under   *)
(* Spec).                                                                   *)
(***************************************************************************)
\* the value the seeding loop gives the entry of an option
C25_Seeded(op) ==
    IF op.action = "store_true" THEN Bool(FALSE)
    ELSE IF op.nargs # "1" THEN List(<<>>)
    ELSE IF op.default = None THEN None
    ELSE PyType(op.type, op.default)

\* options[k] is the list option whose collected elements are stored when
\* the next option token is met
C25_Flushes(k) == po.op_list_name = Str(to_key(options[k]))

\* C25 as stated: in the object a parse returns, every declared option that
\* was never met as an option token holds the value it was seeded with, and
\* dealing with one option's token leaves the entry of every other option as
\* it was.
C25_Original ==
    /\ [](ParseEnded /\ outcome.kind = "result"
             => \A k \in 1..Len(options) :
                   ~InSeq(options[k], po.used_options)
                      => outcome.attrs[to_key(options[k])] = C25_Seeded(options[k]))
    /\ [][InLoop /\ CurOption # 0 /\ pc' = "walk"
             => \A k \in 1..Len(options) :
                   (k # CurOption /\ ~C25_Flushes(k))
                      => self'[to_key(options[k])] = self[to_key(options[k])]]_vars

(***************************************************************************)
(* An attribute supplied more than once to parse_with_palet (checked under  *)
(* SpecInline).                                                             *)
(***************************************************************************)
\* the non-empty lexemes of the payload
C26_Cells == SelectSeq(lexemes, NonEmpty)

\* the index of the attribute that the k-th non-empty lexeme supplies: the
\* named one for a keyword lexeme (0 when no attribute has the name), the
\* k-th for a positional lexeme
C26_Field(k) ==
    IF Contains(C26_Cells[k], "=")
    THEN LET hits == {j \in 1..Len(build.attrs) :
                         build.attrs[j].n = SplitOnce(C26_Cells[k], "=")[1]}
         IN  IF hits = {} THEN 0 ELSE CHOOSE j \in hits : \A h \in hits : j <= h
    ELSE k

\* the text of the value that the k-th non-empty lexeme supplies
C26_ValueText(k) ==
    IF Contains(C26_Cells[k], "=") THEN SplitOnce(C26_Cells[k], "=")[2] ELSE C26_Cells[k]

\* the payload is free of quotes, holds no more non-empty lexemes than there
\* are attributes, has its positional lexemes before its keyword lexemes, and
\* every lexeme supplies a declared attribute with a value that evaluates and
\* that the attribute's contract accepts
C26_WellFormed ==
    /\ ~Contains(text, QUOTE)
    /\ Len(C26_Cells) <= Len(build.attrs)
    /\ \A k \in 1..Len(C26_Cells) :
          /\ C26_Field(k) # 0
          /\ Evaluate(C26_ValueText(k)).ok
          /\ Accepts(build.attrs[C26_Field(k)].contract, Evaluate(C26_ValueText(k)).v)
          /\ ~Contains(C26_Cells[k], "=")
                => \A j \in 1..(k - 1) : ~Contains(C26_Cells[j], "=")

\* some attribute is supplied by two lexemes
C26_Repeated ==
    \E j, k \in 1..Len(C26_Cells) : j < k /\ C26_Field(j) = C26_Field(k)

\* the value of the last of the first k lexemes that supplies attribute j,
\* the attribute's default when none does
RECURSIVE C26_Last(_, _)
C26_Last(j, k) ==
    IF k = 0 THEN build.attrs[j].default
    ELSE IF C26_Field(k) = j THEN Evaluate(C26_ValueText(k)).v
    ELSE C26_Last(j, k - 1)

\* C26: parse_with_palet accepts a well-formed payload that supplies an
\* attribute more than once, positionally and then by keyword or by keyword
\* twice, and the attribute holds the value supplied last; the call fails
\* only if an attribute that must be given is supplied by no lexeme.
C26_LastWins ==
    (variant = "palet" /\ ipc = "done" /\ C26_WellFormed /\ C26_Repeated)
       => IF \E j \in 1..Len(build.attrs) : C26_Last(j, Len(C26_Cells)) = RequiredSentinel
          THEN iout.kind = "error" /\ iout.msg = "must be specified"
          ELSE /\ iout.kind = "result"
               /\ \A j \in 1..Len(build.attrs) :
                     iout.kwargs[_norm_name(build.attrs[j].n)] = C26_Last(j, Len(C26_Cells))

\* 1,a=2 against the attributes a (natural, must be given) and b: a holds 2
C26_Witness ==
    /\ variant = "palet" /\ ipc = "done" /\ build = BuildReq
    /\ text = TextPositionalThenKeyword
    /\ C26_WellFormed /\ C26_Repeated
    /\ iout.kind = "result"
    /\ iout.kwargs[<<"a">>] = Int(w_2)
    /\ iout.kwargs[<<"b">>] = Int(<<"0">>)

(***************************************************************************)
(* make_sources (checked under SpecSources).                                *)
(***************************************************************************)
\* the distinct paths among the first k
C27_Distinct(k) == {paths[j] : j \in 1..k}

\* the position at which paths[k] occurs first
C27_First(k) == CHOOSE j \in 1..k : paths[j] = paths[k] /\ \A h \in 1..(j - 1) : paths[h] # paths[k]

\* C27: make_sources returns one input per path, equal inputs exactly for
\* equal paths; the indices are 0..n-1 for n distinct paths, given out in the
\* order in which the paths occur first; every input is a key of sources, and
\* the source under it was built from that path.
C27_Deduplicated ==
    mpc = "done" =>
        /\ Len(ms.inputs) = Len(paths)
        /\ \A j, k \in 1..Len(paths) :
              (ms.inputs[j] = ms.inputs[k]) <=> (paths[j] = paths[k])
        /\ DOMAIN ms.sources = 0..(Cardinality(C27_Distinct(Len(paths))) - 1)
        /\ \A k \in 1..Len(paths) :
              /\ ms.inputs[k] = Cardinality(C27_Distinct(C27_First(k) - 1))
              /\ ms.inputs[k] \in DOMAIN ms.sources
              /\ ms.sources[ms.inputs[k]] = FileInfo(paths[k], ms.inputs[k])

\* a.mp4 b.mp4 a.mp4 gives the inputs 0, 1, 0 and two sources
C27_Witness ==
    /\ mpc = "done" /\ paths = <<w_a, w_b, w_a>>
    /\ ms.inputs = <<0, 1, 0>>
    /\ DOMAIN ms.sources = {0, 1}

=============================================================================
